---- MODULE Spec2Model ----
(***************************************************************************)
(* CloaksDB: a disk-resident B-tree over slotted pages.                    *)
(*                                                                         *)
(* The file is a sequence of bytes: a 28-byte header followed by a grid of *)
(* fixed-size pages.  Pages are (de)serialized byte for byte; keys are     *)
(* i64 and values are String, both encoded as bincode encodes them.        *)
(***************************************************************************)
EXTENDS Integers, Sequences, FiniteSets, TLC

VARIABLES
    file,          \* the backing file: a sequence of bytes
    open,          \* TRUE while a BTree handle exists
    header,        \* BTree.header (the in-memory Header)
    pm_page_size,  \* BTree.page_manager.page_size
    shadow,        \* key -> value of the last successful insert of key (NoValue if none)
    clean,         \* every call to BTree::new and insert so far returned Ok
    reopened,      \* BTree::new was called on the file after an insert
    nops,          \* number of insert calls issued so far
    last,          \* outcome of the last call: "ok", the error returned, or "panic"
    slotted_page,  \* a SlottedPage held in memory by a client of the page API
    overflow_checks, \* the build panics on integer overflow (rustc -C overflow-checks,
                   \* on in the dev and test profiles) instead of wrapping
    writes         \* the insert in progress, file write by file write: the writes
                   \* still to come, those made, and the pages written so far

vars == <<file, open, header, pm_page_size, shadow, clean, reopened, nops, last, slotted_page,
          overflow_checks, writes>>

(***************************************************************************)
(* Bounds of the model.                                                    *)
(***************************************************************************)
PageSize == 256     \* page_size passed to BTree::new when the file is created
MaxKey == 3         \* keys are 1..MaxKey
MaxOps == 3         \* number of insert calls in a behaviour

ShortLen == 90      \* length of the short value
LongLen == 100      \* length of the long value

Keys == 1..MaxKey
\* a String of n letters 'b', as its UTF-8 bytes
Text(n) == [i \in 1..n |-> 98]
\* a leaf of PageSize bytes holds two short entries, or a short and a long one, but
\* not two long ones; an INTERNAL page holds one key
Values == {Text(ShortLen), Text(LongLen)}
NoValue == <<0>>
\* page_size arguments a reopen may pass: the persisted one and a different one
PageSizeArgs == {PageSize, 2 * PageSize}

(***************************************************************************)
(* Byte-level helpers.                                                     *)
(***************************************************************************)
\* evaluate e once and hand it to F (a Rust `let`)
Bind(e, F(_)) == F(e)

\* n.to_le_bytes() for a non-negative n below 2^31, as an array of `width` bytes
to_le_bytes(n, width) ==
    [i \in 1..width |->
        IF i = 1 THEN n % 256
        ELSE IF i = 2 THEN (n \div 256) % 256
        ELSE IF i = 3 THEN (n \div 65536) % 256
        ELSE IF i = 4 THEN (n \div 16777216) % 256
        ELSE 0]

\* u16::from_le_bytes / u64::from_le_bytes.  2147483647 stands for every value
\* of 2^31 - 1 or more; no state of the model holds such a value in a file
from_le_bytes(b) ==
    IF Len(b) = 2 THEN b[1] + 256 * b[2]
    ELSE IF b[4] >= 128 \/ b[5] + b[6] + b[7] + b[8] > 0 THEN 2147483647
    ELSE b[1] + 256 * b[2] + 65536 * b[3] + 16777216 * b[4]

Zeros(n) == [i \in 1..n |-> 0]

\* buffer[a..b) in Rust's 0-based half-open notation
Slice(buf, a, b) == SubSeq(buf, a + 1, b)

\* buf with buf[at .. at+Len(bytes)) overwritten (copy_from_slice)
Overwrite(buf, at, bytes) ==
    SubSeq(buf, 1, at) \o bytes \o SubSeq(buf, at + Len(bytes) + 1, Len(buf))

\* Vec::insert(pos, x) and Vec::remove(pos), 0-based
VecInsert(s, pos, x) == SubSeq(s, 1, pos) \o <<x>> \o SubSeq(s, pos + 1, Len(s))
VecRemove(s, pos) == SubSeq(s, 1, pos) \o SubSeq(s, pos + 2, Len(s))

U16(x) == x % 65536

\* a - b on unsigned integers panics when the build checks overflow; it wraps otherwise
SubOverflows(a, b) == overflow_checks /\ a < b

\* bincode::serialize of an i64 key and of a String value
SerializeKey(k) == to_le_bytes(k, 8)
SerializeValue(v) == to_le_bytes(Len(v), 8) \o v


\* bincode::deserialize::<i64>: the first 8 bytes, trailing bytes allowed
DeserializeKey(bytes) ==
    IF Len(bytes) < 8 THEN [st |-> "Serialization", v |-> 0]
    ELSE [st |-> "ok", v |-> from_le_bytes(SubSeq(bytes, 1, 8))]

\* bincode::deserialize::<String>: u64 length prefix, then that many bytes
DeserializeValue(bytes) ==
    IF Len(bytes) < 8 THEN [st |-> "Serialization", v |-> <<>>]
    ELSE LET n == from_le_bytes(SubSeq(bytes, 1, 8))
         IN IF Len(bytes) < 8 + n THEN [st |-> "Serialization", v |-> <<>>]
            ELSE [st |-> "ok", v |-> SubSeq(bytes, 9, 8 + n)]

(***************************************************************************)
(* Slot, FreeSpaceRegion, NodeType, Header.                                *)
(***************************************************************************)
INTERNAL == 0
LEAF == 1
SLOT_SIZE == 6
REGION_SIZE == 4
HEADER_SIZE == 17
Header_SIZE == 28
VERSION == 0

Slot_serialize(slot) ==
    to_le_bytes(slot.offset, 2) \o to_le_bytes(slot.key_length, 2)
        \o to_le_bytes(slot.value_length, 2)

Slot_deserialize(b) ==
    [offset |-> from_le_bytes(SubSeq(b, 1, 2)),
     key_length |-> from_le_bytes(SubSeq(b, 3, 4)),
     value_length |-> from_le_bytes(SubSeq(b, 5, 6))]

Region_serialize(r) == to_le_bytes(r.offset, 2) \o to_le_bytes(r.length, 2)

Region_deserialize(b) ==
    [offset |-> from_le_bytes(SubSeq(b, 1, 2)), length |-> from_le_bytes(SubSeq(b, 3, 4))]

Header_new(magic_number, version, page_size, root_page_id, page_count) ==
    [magic_number |-> magic_number, version |-> version, page_size |-> page_size,
     root_page_id |-> root_page_id, page_count |-> page_count]

pages_empty(h) == h.page_count = 0

add_page(h) == [h EXCEPT !.page_count = @ + 1]

add_root_page(h, root_page_id) == add_page([h EXCEPT !.root_page_id = root_page_id])

Header_serialize(h) ==
    to_le_bytes(h.magic_number, 2) \o to_le_bytes(h.version, 2) \o to_le_bytes(h.page_size, 8)
        \o to_le_bytes(h.root_page_id, 8) \o to_le_bytes(h.page_count, 8)

Header_deserialize(buffer) ==
    IF Len(buffer) < Header_SIZE
    THEN [st |-> "InvalidBufferSize", h |-> Header_new(0, 0, 0, 0, 0)]
    ELSE LET magic_number == from_le_bytes(SubSeq(buffer, 1, 2))
         IN IF magic_number = 0
            THEN [st |-> "InvalidMagicNumber", h |-> Header_new(0, 0, 0, 0, 0)]
            ELSE [st |-> "ok",
                  h |-> Header_new(magic_number,
                                   from_le_bytes(SubSeq(buffer, 3, 4)),
                                   from_le_bytes(SubSeq(buffer, 5, 12)),
                                   from_le_bytes(SubSeq(buffer, 13, 20)),
                                   from_le_bytes(SubSeq(buffer, 21, 28)))]

(***************************************************************************)
(* SlottedPage.  A page value is the struct's fields; data is the page     *)
(* buffer.  Operations that can fail return [st, page] with st "ok", the   *)
(* name of the returned error, or "panic".                                 *)
(***************************************************************************)
SlottedPage_new(page_id, node_type, page_size) ==
    [page_id |-> page_id,
     node_type |-> node_type,
     num_keys |-> 0,
     free_space_end |-> U16(page_size),
     free_list |-> <<>>,
     total_free |-> U16(U16(page_size) - HEADER_SIZE),
     slots |-> <<>>,
     pointers |-> <<>>,
     data |-> Zeros(page_size),
     page_size |-> page_size]

get_free_space(p) ==
    LET used_at_start == HEADER_SIZE + Len(p.slots) * SLOT_SIZE + Len(p.pointers) * 8
        used_at_end == p.page_size - p.free_space_end
    IN IF p.page_size >= used_at_start + used_at_end
       THEN p.page_size - (used_at_start + used_at_end)
       ELSE 0

can_insert(p, key_len, value_len) ==
    LET needed == SLOT_SIZE + key_len + value_len + (IF p.node_type = INTERNAL THEN 8 ELSE 0)
    IN get_free_space(p) >= needed

RECURSIVE serialize_slots(_)
serialize_slots(s) ==
    IF s = <<>> THEN <<>> ELSE Slot_serialize(Head(s)) \o serialize_slots(Tail(s))

RECURSIVE serialize_pointers(_)
serialize_pointers(s) ==
    IF s = <<>> THEN <<>> ELSE to_le_bytes(Head(s), 8) \o serialize_pointers(Tail(s))

RECURSIVE serialize_free_list(_)
serialize_free_list(s) ==
    IF s = <<>> THEN <<>> ELSE Region_serialize(Head(s)) \o serialize_free_list(Tail(s))

serialize(p) ==
    LET offset == HEADER_SIZE + Len(p.slots) * SLOT_SIZE + Len(p.pointers) * 8
                    + Len(p.free_list) * REGION_SIZE
        data_start == p.free_space_end
        head == to_le_bytes(p.page_id, 8) \o <<p.node_type>> \o to_le_bytes(p.num_keys, 2)
                  \o to_le_bytes(p.free_space_end, 2) \o to_le_bytes(U16(Len(p.free_list)), 2)
                  \o to_le_bytes(p.total_free, 2)
                  \o serialize_slots(p.slots) \o serialize_pointers(p.pointers)
                  \o serialize_free_list(p.free_list)
    IN IF offset > p.page_size THEN [st |-> "panic", bytes |-> <<>>]
       ELSE IF data_start < offset THEN [st |-> "InvalidBufferSize", bytes |-> <<>>]
       ELSE IF Len(p.data) # p.page_size THEN [st |-> "InvalidBufferSize", bytes |-> <<>>]
       ELSE IF data_start > p.page_size THEN [st |-> "panic", bytes |-> <<>>]
       ELSE [st |-> "ok",
             bytes |-> head \o Zeros(data_start - offset)
                         \o SubSeq(p.data, data_start + 1, p.page_size)]

deserialize(buffer, page_size) ==
    IF Len(buffer) < HEADER_SIZE
    THEN [st |-> "panic", page |-> SlottedPage_new(0, LEAF, 0)]
    ELSE
    LET page_id == from_le_bytes(SubSeq(buffer, 1, 8))
        node_byte == buffer[9]
        num_keys == from_le_bytes(SubSeq(buffer, 10, 11))
        free_space_end == from_le_bytes(SubSeq(buffer, 12, 13))
        free_list_count == from_le_bytes(SubSeq(buffer, 14, 15))
        total_free == from_le_bytes(SubSeq(buffer, 16, 17))
        num_pointers == IF node_byte = LEAF THEN 0 ELSE num_keys + 1
        slots_at == HEADER_SIZE
        pointers_at == slots_at + num_keys * SLOT_SIZE
        free_list_at == pointers_at + num_pointers * 8
        end_at == free_list_at + free_list_count * REGION_SIZE
    IN IF node_byte \notin {INTERNAL, LEAF} \/ end_at > Len(buffer)
       THEN [st |-> "panic", page |-> SlottedPage_new(0, LEAF, 0)]
       ELSE [st |-> "ok",
             page |-> [page_id |-> page_id,
                       node_type |-> node_byte,
                       num_keys |-> num_keys,
                       free_space_end |-> free_space_end,
                       free_list |-> [i \in 1..free_list_count |->
                            Region_deserialize(Slice(buffer, free_list_at + (i - 1) * REGION_SIZE,
                                                     free_list_at + i * REGION_SIZE))],
                       total_free |-> total_free,
                       slots |-> [i \in 1..num_keys |->
                            Slot_deserialize(Slice(buffer, slots_at + (i - 1) * SLOT_SIZE,
                                                   slots_at + i * SLOT_SIZE))],
                       pointers |-> [i \in 1..num_pointers |->
                            from_le_bytes(Slice(buffer, pointers_at + (i - 1) * 8,
                                                pointers_at + i * 8))],
                       data |-> buffer,
                       page_size |-> page_size]]

\* index is 0-based, as in the source
read_key(p, index) ==
    IF index >= Len(p.slots) THEN [st |-> "panic", v |-> 0]
    ELSE LET slot == p.slots[index + 1]
         IN IF slot.offset + slot.key_length > Len(p.data) THEN [st |-> "panic", v |-> 0]
            ELSE DeserializeKey(Slice(p.data, slot.offset, slot.offset + slot.key_length))

read_value(p, index) ==
    IF index >= Len(p.slots) THEN [st |-> "panic", v |-> <<>>]
    ELSE LET slot == p.slots[index + 1]
             offset == slot.offset + slot.key_length
         IN IF offset + slot.value_length > Len(p.data) THEN [st |-> "panic", v |-> <<>>]
            ELSE DeserializeValue(Slice(p.data, offset, offset + slot.value_length))


\* a faulty find_key_position_loop: the search passes the keys equal to `key`
RECURSIVE find_upper_bound_loop(_, _, _, _)
find_upper_bound_loop(p, key, left, right) ==
    IF left < right
    THEN Bind(left + (right - left) \div 2, LAMBDA mid :
         Bind(read_key(p, mid), LAMBDA mid_key :
            IF mid_key.st # "ok" THEN [st |-> mid_key.st, v |-> 0]
            ELSE IF key < mid_key.v
                 THEN find_upper_bound_loop(p, key, left, mid)
                 ELSE find_upper_bound_loop(p, key, mid + 1, right)))
    ELSE [st |-> "ok", v |-> left]

RECURSIVE find_key_position_loop(_, _, _, _)
find_key_position_loop(p, key, left, right) ==
    IF left < right
    THEN Bind(left + (right - left) \div 2, LAMBDA mid :
         Bind(read_key(p, mid), LAMBDA mid_key :
            IF mid_key.st # "ok" THEN [st |-> mid_key.st, v |-> 0]
            ELSE IF key <= mid_key.v
                 THEN find_key_position_loop(p, key, left, mid)
                 ELSE find_key_position_loop(p, key, mid + 1, right)))
    ELSE [st |-> "ok", v |-> left]

\* [st, v]: v is the position
find_key_position(p, key) == find_key_position_loop(p, key, 0, Len(p.slots))

\* a faulty find_exact_key: the position is not compared with the key
find_lower_bound(p, key) == find_key_position(p, key)

\* [st, v]: v is the position, or -1 for None
find_exact_key(p, key) ==
    Bind(find_key_position(p, key), LAMBDA pos :
        IF pos.st # "ok" THEN pos
        ELSE IF pos.v < Len(p.slots)
             THEN Bind(read_key(p, pos.v), LAMBDA found_key :
                     IF found_key.st # "ok" THEN found_key
                     ELSE IF found_key.v = key THEN pos ELSE [st |-> "ok", v |-> -1])
             ELSE [st |-> "ok", v |-> -1])

\* a faulty get_pointer: always the leftmost child
leftmost_pointer(p, key) ==
    IF p.pointers = <<>> THEN [st |-> "panic", v |-> 0]
    ELSE [st |-> "ok", v |-> p.pointers[1]]

\* [st, v]: v is the child's page id
get_pointer(p, key) ==
    Bind(find_key_position(p, key), LAMBDA pos :
        IF pos.st # "ok" THEN pos
        ELSE IF pos.v >= Len(p.pointers) THEN [st |-> "panic", v |-> 0]
             ELSE [st |-> "ok", v |-> p.pointers[pos.v + 1]])

header_region_end(p) ==
    HEADER_SIZE + Len(p.slots) * SLOT_SIZE
        + (IF p.node_type = LEAF THEN Len(p.pointers) ELSE Len(p.pointers) + 1) * 8
        + Len(p.free_list) * REGION_SIZE

\* index of the first free-list hole whose length equals `length` (0 if none)
RECURSIVE perfect_fit(_, _, _)
perfect_fit(free_list, length, i) ==
    IF i > Len(free_list) THEN 0
    ELSE IF free_list[i].length = length THEN i
    ELSE perfect_fit(free_list, length, i + 1)

\* a faulty best_fit: the first hole that is long enough
RECURSIVE first_fit(_, _, _, _)
first_fit(free_list, length, i, best) ==
    IF i > Len(free_list) THEN best
    ELSE IF free_list[i].length >= length THEN i
    ELSE first_fit(free_list, length, i + 1, best)

\* min_by_key over the holes with length >= `length`: the first hole of least surplus
RECURSIVE best_fit(_, _, _, _)
best_fit(free_list, length, i, best) ==
    IF i > Len(free_list) THEN best
    ELSE IF free_list[i].length >= length
            /\ (best = 0 \/ free_list[i].length < free_list[best].length)
         THEN best_fit(free_list, length, i + 1, i)
         ELSE best_fit(free_list, length, i + 1, best)

\* [found, offset, idx]: idx is the 1-based free-list index, 0 for contiguous space
find_space_for(p, length) ==
    Bind(perfect_fit(p.free_list, length, 1), LAMBDA pf :
        IF pf # 0 THEN [found |-> TRUE, offset |-> p.free_list[pf].offset, idx |-> pf]
        ELSE Bind(best_fit(p.free_list, length, 1, 0), LAMBDA bf :
            IF bf # 0 THEN [found |-> TRUE, offset |-> p.free_list[bf].offset, idx |-> bf]
            ELSE IF p.free_space_end >= length
                    /\ p.free_space_end - length >= header_region_end(p) + SLOT_SIZE
                 THEN [found |-> TRUE, offset |-> U16(p.free_space_end - length), idx |-> 0]
                 ELSE [found |-> FALSE, offset |-> 0, idx |-> 0]))

\* a faulty consume_hole: the hole is left as it was
keep_hole(free_list, idx, offset, total_len) == free_list

\* the free list after `total_len` bytes were taken from the front of hole idx
consume_hole(free_list, idx, offset, total_len) ==
    IF free_list[idx].length - total_len > 0
    THEN [free_list EXCEPT ![idx] = [offset |-> U16(offset + U16(total_len)),
                                     length |-> U16(free_list[idx].length - total_len)]]
    ELSE VecRemove(free_list, idx - 1)

\* insert, once the entry's bytes are serialized
insert_bytes(p, pos, key_bytes, value_bytes) ==
    Bind(find_space_for(p, Len(key_bytes) + Len(value_bytes)), LAMBDA space :
        IF ~space.found THEN [st |-> "PageOverflow", page |-> p]
        ELSE IF space.offset + Len(key_bytes) + Len(value_bytes) > Len(p.data)
                \/ pos > Len(p.slots)
                \/ SubOverflows(p.total_free, Len(key_bytes) + Len(value_bytes))
             THEN [st |-> "panic", page |-> p]
        ELSE [st |-> "ok",
              page |-> [p EXCEPT
                  !.data = Overwrite(p.data, space.offset, key_bytes \o value_bytes),
                  !.free_list = IF space.idx = 0 THEN @
                                ELSE consume_hole(@, space.idx, space.offset,
                                                  Len(key_bytes) + Len(value_bytes)),
                  !.free_space_end = IF space.idx = 0 THEN space.offset ELSE @,
                  !.total_free = U16(@ - U16(Len(key_bytes) + Len(value_bytes))),
                  !.slots = VecInsert(@, pos, [offset |-> space.offset,
                                               key_length |-> U16(Len(key_bytes)),
                                               value_length |-> U16(Len(value_bytes))]),
                  !.num_keys = U16(@ + 1)]])

\* [st, page]
insert(p, pos, key, value) == insert_bytes(p, pos, SerializeKey(key), SerializeValue(value))

\* retain_mut: walk the holes in order, folding the neighbours of `region` into it
RECURSIVE coalesce(_, _, _, _)
coalesce(free_list, i, kept, region) ==
    IF i > Len(free_list) THEN [kept |-> kept, region |-> region]
    ELSE IF U16(free_list[i].offset + free_list[i].length) = region.offset
         THEN coalesce(free_list, i + 1, kept,
                       [offset |-> free_list[i].offset,
                        length |-> U16(region.length + free_list[i].length)])
    ELSE IF U16(region.offset + region.length) = free_list[i].offset
         THEN coalesce(free_list, i + 1, kept,
                       [region EXCEPT !.length = U16(@ + free_list[i].length)])
    ELSE coalesce(free_list, i + 1, Append(kept, free_list[i]), region)

\* number of leading holes whose offset is <= offset
RECURSIVE position_after(_, _, _)
position_after(free_list, offset, i) ==
    IF i > Len(free_list) \/ free_list[i].offset > offset THEN i - 1
    ELSE position_after(free_list, offset, i + 1)

\* a faulty add_to_free_list: the region is filed by offset and no neighbour is
\* folded into it
add_unmerged(p, region) ==
    [p EXCEPT !.free_list = VecInsert(@, position_after(@, region.offset, 1), region)]

add_to_free_list(p, region) ==
    Bind(coalesce(p.free_list, 1, <<>>, region), LAMBDA c :
        IF U16(c.region.offset + c.region.length) = p.free_space_end
        THEN [p EXCEPT !.free_list = c.kept, !.free_space_end = c.region.offset]
        ELSE [p EXCEPT !.free_list =
                 VecInsert(c.kept, position_after(c.kept, c.region.offset, 1), c.region)])

\* a faulty delete: the first slot is removed and freed, whatever pos is
delete_first(p, pos) ==
    IF pos >= Len(p.slots) THEN [st |-> "KeyNotFound", page |-> p]
    ELSE Bind(U16(p.slots[1].key_length + p.slots[1].value_length), LAMBDA freed_length :
            [st |-> "ok",
             page |-> add_to_free_list(
                          [p EXCEPT !.slots = VecRemove(@, 0),
                                    !.num_keys = U16(@ - 1),
                                    !.total_free = U16(@ + freed_length)],
                          [offset |-> p.slots[1].offset, length |-> freed_length])])

\* a faulty delete: the bytes of the removed slot are not put on the free list
delete_leaking(p, pos) ==
    IF pos >= Len(p.slots) THEN [st |-> "KeyNotFound", page |-> p]
    ELSE [st |-> "ok",
          page |-> [p EXCEPT !.slots = VecRemove(@, pos), !.num_keys = U16(@ - 1)]]

\* [st, page]
delete(p, pos) ==
    IF pos > Len(p.slots) THEN [st |-> "KeyNotFound", page |-> p]
    ELSE IF pos >= Len(p.slots) THEN [st |-> "panic", page |-> p]
    ELSE Bind(U16(p.slots[pos + 1].key_length + p.slots[pos + 1].value_length),
              LAMBDA freed_length :
            [st |-> "ok",
             page |-> add_to_free_list(
                          [p EXCEPT !.slots = VecRemove(@, pos),
                                    !.num_keys = U16(@ - 1),
                                    !.total_free = U16(@ + freed_length)],
                          [offset |-> p.slots[pos + 1].offset, length |-> freed_length])])

\* update's first arm: the new value fits in the old value's bytes
update_in_place(p, pos, key_bytes, value_bytes) ==
    Bind(p.slots[pos + 1].offset, LAMBDA offset :
    Bind(p.slots[pos + 1].value_length - Len(value_bytes), LAMBDA leftover :
    Bind([p EXCEPT !.data = Overwrite(@, offset, key_bytes \o value_bytes),
                   !.slots[pos + 1].key_length = U16(Len(key_bytes)),
                   !.slots[pos + 1].value_length = U16(Len(value_bytes))],
         LAMBDA written :
        IF offset + Len(key_bytes) + Len(value_bytes) > Len(p.data)
        THEN [st |-> "panic", page |-> p]
        ELSE IF leftover > 0
        THEN [st |-> "ok",
              page |-> [add_to_free_list(written,
                            [offset |-> U16(offset + Len(key_bytes) + Len(value_bytes)),
                             length |-> U16(leftover)])
                        EXCEPT !.total_free = U16(@ + U16(leftover))]]
        ELSE [st |-> "ok", page |-> written])))

\* [st, page]
update(p, pos, key, value) ==
    IF pos >= Len(p.slots) THEN [st |-> "panic", page |-> p]
    ELSE IF Len(SerializeValue(value)) <= p.slots[pos + 1].value_length
    THEN update_in_place(p, pos, SerializeKey(key), SerializeValue(value))
    ELSE Bind(delete(p, pos), LAMBDA deleted :
            IF deleted.st # "ok" THEN deleted
            ELSE insert(deleted.page, pos, key, value))

\* split's loop: re-insert entries i.. of p at the end of right
RECURSIVE move_right(_, _, _)
move_right(p, right, i) ==
    IF i >= Len(p.slots) THEN [st |-> "ok", page |-> right]
    ELSE Bind(read_key(p, i), LAMBDA key :
         Bind(read_value(p, i), LAMBDA value :
            IF key.st # "ok" THEN [st |-> key.st, page |-> right]
            ELSE IF value.st # "ok" THEN [st |-> value.st, page |-> right]
            ELSE Bind(insert(right, Len(right.slots), key.v, value.v), LAMBDA r :
                    IF r.st # "ok" THEN r ELSE move_right(p, r.page, i + 1))))

\* a faulty free_removed: the freed bytes are not added to total_free
RECURSIVE free_uncounted(_, _)
free_uncounted(p, removed) ==
    IF removed = <<>> THEN p
    ELSE free_uncounted(
             add_to_free_list(p, [offset |-> Head(removed).offset,
                                  length |-> U16(Head(removed).key_length
                                                   + Head(removed).value_length)]),
             Tail(removed))

\* split's closing loop: free the byte range of every removed slot
RECURSIVE free_removed(_, _)
free_removed(p, removed) ==
    IF removed = <<>> THEN p
    ELSE Bind(U16(Head(removed).key_length + Head(removed).value_length), LAMBDA length :
            free_removed(
                [add_to_free_list(p, [offset |-> Head(removed).offset, length |-> length])
                 EXCEPT !.total_free = U16(@ + length)],
                Tail(removed)))

SplitFailed(st, p) == [st |-> st, page |-> p, key |-> 0, value |-> <<>>, right |-> p]

\* [st, page (the left page), key, value (the promoted pair), right]
split(p, new_page_id) ==
    Bind(p.num_keys \div 2, LAMBDA mid_index :
    Bind(read_key(p, mid_index), LAMBDA mid_key :
    Bind(read_value(p, mid_index), LAMBDA mid_value :
        IF mid_key.st # "ok" THEN SplitFailed(mid_key.st, p)
        ELSE IF mid_value.st # "ok" THEN SplitFailed(mid_value.st, p)
        ELSE
    Bind(move_right(p, SlottedPage_new(new_page_id, p.node_type, p.page_size), mid_index + 1),
         LAMBDA moved :
    Bind(p.node_type = INTERNAL /\ Len(p.pointers) > mid_index + 1, LAMBDA moves_pointers :
        IF moved.st # "ok" THEN SplitFailed(moved.st, p)
        ELSE IF mid_index > Len(p.slots) THEN SplitFailed("panic", p)
        ELSE [st |-> "ok",
              page |-> free_removed(
                  [p EXCEPT
                      !.pointers = IF moves_pointers THEN SubSeq(@, 1, mid_index + 1) ELSE @,
                      !.slots = SubSeq(@, 1, mid_index),
                      !.num_keys = U16(mid_index)],
                  SubSeq(p.slots, mid_index + 1, Len(p.slots))),
              key |-> mid_key.v,
              value |-> mid_value.v,
              right |-> IF moves_pointers
                        THEN [moved.page EXCEPT
                                 !.pointers = SubSeq(p.pointers, mid_index + 2, Len(p.pointers))]
                        ELSE moved.page])))))

\* compact's first loop: read_key_value of every slot; [st, v]: v the pairs
RECURSIVE read_pairs(_, _, _)
read_pairs(p, i, pairs) ==
    IF i >= Len(p.slots) THEN [st |-> "ok", v |-> pairs]
    ELSE Bind(read_key(p, i), LAMBDA key :
         Bind(read_value(p, i), LAMBDA value :
            IF key.st # "ok" THEN [st |-> key.st, v |-> pairs]
            ELSE IF value.st # "ok" THEN [st |-> value.st, v |-> pairs]
            ELSE read_pairs(p, i + 1, Append(pairs, [key |-> key.v, value |-> value.v]))))

\* compact's second loop: append pairs i.. downward from free_space_end
RECURSIVE reappend(_, _, _)
reappend(p, pairs, i) ==
    IF i > Len(pairs) THEN [st |-> "ok", page |-> p]
    ELSE Bind(SerializeKey(pairs[i].key), LAMBDA key_bytes :
         Bind(SerializeValue(pairs[i].value), LAMBDA value_bytes :
         Bind(p.free_space_end - (Len(key_bytes) + Len(value_bytes)), LAMBDA new_offset :
            IF new_offset < 0 \/ p.free_space_end > Len(p.data)
                  \/ SubOverflows(p.total_free, Len(key_bytes) + Len(value_bytes))
            THEN [st |-> "panic", page |-> p]
            ELSE reappend(
                     [p EXCEPT
                         !.data = Overwrite(@, new_offset, key_bytes \o value_bytes),
                         !.free_space_end = U16(new_offset),
                         !.total_free = U16(@ - U16(Len(key_bytes) + Len(value_bytes))),
                         !.slots = Append(@, [offset |-> U16(new_offset),
                                              key_length |-> U16(Len(key_bytes)),
                                              value_length |-> U16(Len(value_bytes))])],
                     pairs, i + 1))))

\* a faulty compact: the page is left as it is
compact_nothing(p) == [st |-> "ok", page |-> p]

\* [st, page]
compact(p) ==
    Bind(read_pairs(p, 0, <<>>), LAMBDA pairs :
        IF pairs.st # "ok" THEN [st |-> pairs.st, page |-> p]
        ELSE Bind(reappend([p EXCEPT !.free_space_end = U16(p.page_size),
                                     !.total_free = U16(U16(p.page_size) - Header_SIZE),
                                     !.slots = <<>>],
                           pairs.v, 1),
                  LAMBDA r :
                IF r.st # "ok" THEN r
                ELSE [st |-> "ok", page |-> [r.page EXCEPT !.free_list = <<>>]]))

(***************************************************************************)
(* PageManager: the file as a byte sequence.                               *)
(***************************************************************************)
\* write `bytes` at byte offset `at` (seek + write_all); a gap past EOF reads as zeros
FileWrite(f, at, bytes) ==
    IF at > Len(f) THEN f \o Zeros(at - Len(f)) \o bytes
    ELSE SubSeq(f, 1, at) \o bytes \o SubSeq(f, at + Len(bytes) + 1, Len(f))

\* read into a zeroed buffer of n bytes from byte offset `at` (seek + read)
FileRead(f, at, n) ==
    IF at >= Len(f) THEN Zeros(n)
    ELSE IF at + n <= Len(f) THEN SubSeq(f, at + 1, at + n)
    ELSE SubSeq(f, at + 1, Len(f)) \o Zeros(at + n - Len(f))

PageManager_new(f, page_size, header_size) ==
    IF Len(f) < header_size THEN f \o Zeros(header_size) ELSE f

from_pageid(page_size, page_id) == page_id * page_size + Header_SIZE

to_pageid(page_size, byte_offset) == (byte_offset - Header_SIZE) \div page_size

\* a faulty allocate_page: the file grows by two pages
allocate_two_pages(f, page_size) ==
    IF Len(f) < Header_SIZE THEN [st |-> "HeaderNotWritten", file |-> f, page_id |-> 0]
    ELSE [st |-> "ok", file |-> f \o Zeros(2 * page_size),
          page_id |-> to_pageid(page_size, Len(f))]

\* [st, file, page_id]
allocate_page(f, page_size) ==
    IF Len(f) < Header_SIZE THEN [st |-> "HeaderNotWritten", file |-> f, page_id |-> 0]
    ELSE [st |-> "ok", file |-> f \o Zeros(page_size), page_id |-> to_pageid(page_size, Len(f))]

\* [st, file]
pm_write_header(f, data) ==
    IF Len(data) > Header_SIZE THEN [st |-> "Io", file |-> f]
    ELSE [st |-> "ok", file |-> FileWrite(f, 0, data)]

pm_read_header(f) == FileRead(f, 0, Header_SIZE)

pm_write_page(f, page_size, page_id, data) == FileWrite(f, from_pageid(page_size, page_id), data)

pm_read_page(f, page_size, page_id) == FileRead(f, from_pageid(page_size, page_id), page_size)

(***************************************************************************)
(* BTree.  A handle is (header, pm_page_size) over the file.               *)
(***************************************************************************)
read_header(f) == Header_deserialize(pm_read_header(f))

write_header(h, f) == pm_write_header(f, Header_serialize(h))

\* [st, file]
write_page(page, f, page_size) ==
    Bind(serialize(page), LAMBDA data :
        IF data.st # "ok" THEN [st |-> data.st, file |-> f]
        ELSE [st |-> "ok", file |-> pm_write_page(f, page_size, page.page_id, data.bytes)])

\* [st, page]
read_page(f, h, page_size, page_id) ==
    deserialize(pm_read_page(f, page_size, page_id), h.page_size)

\* [st, file, header, page]; the unwraps panic
create_page(h, node_type, f, page_size) ==
    Bind(write_header(add_page(h), f), LAMBDA w :
        IF w.st # "ok"
        THEN [st |-> "panic", file |-> f, header |-> add_page(h),
              page |-> SlottedPage_new(0, node_type, 0)]
        ELSE Bind(allocate_page(w.file, page_size), LAMBDA a :
            IF a.st # "ok"
            THEN [st |-> "panic", file |-> w.file, header |-> add_page(h),
                  page |-> SlottedPage_new(0, node_type, 0)]
            ELSE [st |-> "ok", file |-> a.file, header |-> add_page(h),
                  page |-> SlottedPage_new(a.page_id, node_type, h.page_size)]))

Handle(st, f, h, page_size) ==
    [st |-> st, file |-> f, header |-> h, pm_page_size |-> page_size]

\* BTree::new from `if header.pages_empty()` on; f is the file PageManager::new left
BTree_new_empty(f, h0, page_size) ==
    Bind(create_page(h0, LEAF, f, page_size), LAMBDA cp :
        IF cp.st # "ok" THEN Handle(cp.st, cp.file, cp.header, page_size)
        ELSE
    Bind(add_root_page(cp.header, cp.page.page_id), LAMBDA h1 :
    Bind(write_header(h1, cp.file), LAMBDA wh :
        IF wh.st # "ok" THEN Handle(wh.st, cp.file, h1, page_size)
        ELSE
    Bind(write_page(cp.page, wh.file, page_size), LAMBDA wp :
        IF wp.st # "ok" THEN Handle(wp.st, wh.file, h1, page_size)
        ELSE IF read_header(wp.file).st # "ok"
             THEN Handle(read_header(wp.file).st, wp.file, h1, page_size)
        ELSE Handle("ok", wp.file, h1, page_size)))))

\* [st, file, header, pm_page_size]
BTree_new(f0, page_size) ==
    Bind(PageManager_new(f0, page_size, Header_SIZE), LAMBDA f1 :
    Bind(read_header(f1), LAMBDA rh :
    Bind(IF rh.st = "ok" THEN rh.h ELSE Header_new(1, VERSION, page_size, 0, 0), LAMBDA h0 :
        IF pages_empty(h0) THEN BTree_new_empty(f1, h0, page_size)
        ELSE Handle("ok", f1, h0, page_size))))

\* number of page frames the handle can address in the file, plus two
Fuel(f, page_size) == (Len(f) \div page_size) + 2

\* i64::to_string for a non-negative key: its decimal digits in ASCII
RECURSIVE to_string(_)
to_string(k) == IF k < 10 THEN <<48 + k>> ELSE to_string(k \div 10) \o <<48 + (k % 10)>>

\* [st, v]: v is the value found, or the text carried by KeyNotFound;
\* a descent longer than the file has pages never ends (stack overflow)
RECURSIVE search_node(_, _, _, _, _, _)
search_node(f, h, page_size, key, page_id, fuel) ==
    IF fuel = 0 THEN [st |-> "StackOverflow", v |-> <<>>]
    ELSE
    Bind(read_page(f, h, page_size, page_id), LAMBDA node :
        IF node.st # "ok" THEN [st |-> node.st, v |-> <<>>]
        ELSE
    Bind(find_exact_key(node.page, key), LAMBDA key_pos :
        IF key_pos.st # "ok" THEN [st |-> key_pos.st, v |-> <<>>]
        ELSE IF node.page.node_type = INTERNAL
        THEN IF key_pos.v >= 0 THEN read_value(node.page, key_pos.v)
             ELSE Bind(get_pointer(node.page, key), LAMBDA child_node_id :
                     IF child_node_id.st # "ok" THEN [st |-> child_node_id.st, v |-> <<>>]
                     ELSE search_node(f, h, page_size, key, child_node_id.v, fuel - 1))
        ELSE IF key_pos.v < 0 THEN [st |-> "KeyNotFound", v |-> to_string(key)]
             ELSE read_value(node.page, key_pos.v)))

\* [st, v]
search(f, h, page_size, key) ==
    search_node(f, h, page_size, key, h.root_page_id, Fuel(f, page_size))

(***************************************************************************)
(* BTree::insert.  insert_into_page returns                                *)
(*   [st, file, header, page, promoted, key, value, right]:                *)
(* page is the caller's page after the call, promoted says whether         *)
(* Some((key, value, right)) came back.                                    *)
(***************************************************************************)
NoPromotion(st, f, h, page) ==
    [st |-> st, file |-> f, header |-> h, page |-> page,
     promoted |-> FALSE, key |-> 0, value |-> <<>>, right |-> page]

Promotion(f, h, page, key, value, right) ==
    [st |-> "ok", file |-> f, header |-> h, page |-> page,
     promoted |-> TRUE, key |-> key, value |-> value, right |-> right]

\* a faulty insert_at_position: the child pointer is never spliced in
insert_without_pointer(p, key, value, child_page_id) ==
    Bind(find_key_position(p, key), LAMBDA pos :
        IF pos.st # "ok" THEN [st |-> pos.st, page |-> p]
        ELSE insert(p, pos.v, key, value))

\* find_key_position then insert; child_page_id >= 0 also splices the pointer
\* in at insert_pos + 1 (Vec::insert panics past the end)
insert_at_position(p, key, value, child_page_id) ==
    Bind(find_key_position(p, key), LAMBDA pos :
        IF pos.st # "ok" THEN [st |-> pos.st, page |-> p]
        ELSE Bind(insert(p, pos.v, key, value), LAMBDA i :
            IF i.st # "ok" \/ child_page_id < 0 THEN i
            ELSE IF pos.v + 1 > Len(i.page.pointers) THEN [st |-> "panic", page |-> p]
            ELSE [st |-> "ok",
                  page |-> [i.page EXCEPT
                               !.pointers = VecInsert(@, pos.v + 1, child_page_id)]]))

\* after a split s: the entry goes left or right of the promoted key; [st, page, right]
place_after_split(s, key, value, child_page_id) ==
    IF key < s.key
    THEN Bind(insert_at_position(s.page, key, value, child_page_id), LAMBDA i :
            [st |-> i.st, page |-> i.page, right |-> s.right])
    ELSE IF s.key < key
    THEN Bind(insert_at_position(s.right, key, value, child_page_id), LAMBDA i :
            [st |-> i.st, page |-> s.page, right |-> i.page])
    ELSE [st |-> "Weird", page |-> s.page, right |-> s.right]

\* LEAF arm, key absent, page full: allocate, split, place, write both halves
split_leaf(f, h, page_size, page, key, value) ==
    Bind(allocate_page(f, page_size), LAMBDA a :
        IF a.st # "ok" THEN NoPromotion(a.st, f, h, page)
        ELSE
    Bind(split(page, a.page_id), LAMBDA s :
        IF s.st # "ok" THEN NoPromotion(s.st, a.file, h, page)
        ELSE
    Bind(place_after_split(s, key, value, -1), LAMBDA pl :
        IF pl.st # "ok" THEN NoPromotion(pl.st, a.file, h, page)
        ELSE
    Bind(write_page(pl.page, a.file, page_size), LAMBDA w1 :
        IF w1.st # "ok" THEN NoPromotion(w1.st, w1.file, h, pl.page)
        ELSE
    Bind(write_page(pl.right, w1.file, page_size), LAMBDA w2 :
        IF w2.st # "ok" THEN NoPromotion(w2.st, w2.file, h, pl.page)
        ELSE Promotion(w2.file, add_page(h), pl.page, s.key, s.value, pl.right))))))

\* a faulty insert_into_leaf: the page is written whether update returned Ok or not
insert_into_leaf_writing(f, h, page_size, page, key, value) ==
    Bind(find_exact_key(page, key), LAMBDA found :
        IF found.st # "ok" THEN NoPromotion(found.st, f, h, page)
        ELSE IF found.v >= 0
        THEN Bind(update(page, found.v, key, value), LAMBDA u :
             Bind(write_page(u.page, f, page_size), LAMBDA w :
                NoPromotion(IF u.st # "ok" THEN u.st ELSE w.st, w.file, h, u.page)))
        ELSE IF can_insert(page, Len(SerializeKey(key)), Len(SerializeValue(value)))
        THEN Bind(insert_at_position(page, key, value, -1), LAMBDA i :
                IF i.st # "ok" THEN NoPromotion(i.st, f, h, page)
                ELSE Bind(write_page(i.page, f, page_size), LAMBDA w :
                        NoPromotion(w.st, w.file, h, i.page)))
        ELSE split_leaf(f, h, page_size, page, key, value))

\* LEAF arm of insert_into_page
insert_into_leaf(f, h, page_size, page, key, value) ==
    Bind(find_exact_key(page, key), LAMBDA found :
        IF found.st # "ok" THEN NoPromotion(found.st, f, h, page)
        ELSE IF found.v >= 0
        THEN Bind(update(page, found.v, key, value), LAMBDA u :
                IF u.st # "ok" THEN NoPromotion(u.st, f, h, page)
                ELSE Bind(write_page(u.page, f, page_size), LAMBDA w :
                        NoPromotion(w.st, w.file, h, u.page)))
        ELSE IF can_insert(page, Len(SerializeKey(key)), Len(SerializeValue(value)))
        THEN Bind(insert_at_position(page, key, value, -1), LAMBDA i :
                IF i.st # "ok" THEN NoPromotion(i.st, f, h, page)
                ELSE Bind(write_page(i.page, f, page_size), LAMBDA w :
                        NoPromotion(w.st, w.file, h, i.page)))
        ELSE split_leaf(f, h, page_size, page, key, value))

\* INTERNAL arm, the child promoted c.key and the page is full
split_internal(page_size, page, c) ==
    Bind(allocate_page(c.file, page_size), LAMBDA a :
        IF a.st # "ok" THEN NoPromotion(a.st, c.file, c.header, page)
        ELSE
    Bind(split(page, a.page_id), LAMBDA s :
        IF s.st # "ok" THEN NoPromotion(s.st, a.file, c.header, page)
        ELSE
    Bind(place_after_split(s, c.key, c.value, c.right.page_id), LAMBDA pl :
        IF pl.st # "ok" THEN NoPromotion(pl.st, a.file, c.header, page)
        ELSE
    Bind(write_page(pl.page, a.file, page_size), LAMBDA w1 :
        IF w1.st # "ok" THEN NoPromotion(w1.st, w1.file, c.header, pl.page)
        ELSE
    Bind(write_page(c.right, w1.file, page_size), LAMBDA w2 :
        IF w2.st # "ok" THEN NoPromotion(w2.st, w2.file, c.header, pl.page)
        ELSE
    Bind(write_page(pl.right, w2.file, page_size), LAMBDA w3 :
        IF w3.st # "ok" THEN NoPromotion(w3.st, w3.file, c.header, pl.page)
        ELSE Promotion(w3.file, add_page(c.header), pl.page, s.key, s.value, pl.right)))))))

\* INTERNAL arm, the child returned Some((c.key, c.value, c.right))
absorb_promotion(page_size, page, c) ==
    Bind(find_key_position(page, c.key), LAMBDA insert_pos :
        IF insert_pos.st # "ok" THEN NoPromotion(insert_pos.st, c.file, c.header, page)
        ELSE IF can_insert(page, Len(SerializeKey(c.key)), Len(SerializeValue(c.value)))
        THEN Bind(insert_at_position(page, c.key, c.value, c.right.page_id), LAMBDA i :
                IF i.st # "ok" THEN NoPromotion(i.st, c.file, c.header, page)
                ELSE
             Bind(write_page(i.page, c.file, page_size), LAMBDA w1 :
                IF w1.st # "ok" THEN NoPromotion(w1.st, w1.file, c.header, i.page)
                ELSE
             Bind(write_page(c.right, w1.file, page_size), LAMBDA w2 :
                NoPromotion(w2.st, w2.file, c.header, i.page))))
        ELSE split_internal(page_size, page, c))

RECURSIVE insert_into_page(_, _, _, _, _, _, _)
insert_into_page(f, h, page_size, page, key, value, fuel) ==
    IF fuel = 0 THEN NoPromotion("StackOverflow", f, h, page)
    ELSE IF page.node_type = LEAF THEN insert_into_leaf(f, h, page_size, page, key, value)
    ELSE
    Bind(get_pointer(page, key), LAMBDA child_id :
        IF child_id.st # "ok" THEN NoPromotion(child_id.st, f, h, page)
        ELSE
    Bind(read_page(f, h, page_size, child_id.v), LAMBDA child :
        IF child.st # "ok" THEN NoPromotion(child.st, f, h, page)
        ELSE
    Bind(insert_into_page(f, h, page_size, child.page, key, value, fuel - 1), LAMBDA c :
        IF c.st # "ok" THEN NoPromotion(c.st, c.file, c.header, page)
        ELSE IF c.promoted THEN absorb_promotion(page_size, page, c)
        ELSE NoPromotion("ok", c.file, c.header, page))))

\* a faulty push_root_pointers: the second pointer is the new root itself
push_root_pointers_self(new_root, root_page_id, right) ==
    [new_root EXCEPT !.pointers = @ \o <<root_page_id, new_root.page_id>>]

\* a faulty push_root_pointers: the two children are pushed in the other order
push_root_pointers_swapped(new_root, root_page_id, right) ==
    [new_root EXCEPT !.pointers = @ \o <<right.page_id, root_page_id>>]

\* new_root.pointers.push(root_page_id); new_root.pointers.push(right.page_id)
push_root_pointers(new_root, root_page_id, right) ==
    [new_root EXCEPT !.pointers = @ \o <<root_page_id, right.page_id>>]

\* insert's `if let Some(..)` arm: r is what insert_into_page(root) returned
split_root(page_size, r) ==
    Bind(create_page(r.header, INTERNAL, r.file, page_size), LAMBDA cp :
        IF cp.st # "ok" THEN [st |-> cp.st, file |-> cp.file, header |-> cp.header]
        ELSE
    Bind(insert(cp.page, 0, r.key, r.value), LAMBDA i :
        IF i.st # "ok" THEN [st |-> i.st, file |-> cp.file, header |-> cp.header]
        ELSE
    Bind(push_root_pointers(i.page, cp.header.root_page_id, r.right), LAMBDA new_root :
    Bind(write_page(new_root, cp.file, page_size), LAMBDA w1 :
        IF w1.st # "ok" THEN [st |-> w1.st, file |-> w1.file, header |-> cp.header]
        ELSE
    Bind(write_page(r.page, w1.file, page_size), LAMBDA w2 :
        IF w2.st # "ok" THEN [st |-> w2.st, file |-> w2.file, header |-> cp.header]
        ELSE [st |-> "ok", file |-> w2.file,
              header |-> [cp.header EXCEPT !.root_page_id = new_root.page_id]])))))

\* [st, file, header]
BTree_insert(f, h, page_size, key, value) ==
    Bind(read_page(f, h, page_size, h.root_page_id), LAMBDA root :
        IF root.st # "ok" THEN [st |-> root.st, file |-> f, header |-> h]
        ELSE
    Bind(insert_into_page(f, h, page_size, root.page, key, value, Fuel(f, page_size)),
         LAMBDA r :
        IF r.st # "ok" THEN [st |-> r.st, file |-> r.file, header |-> r.header]
        ELSE IF r.promoted THEN split_root(page_size, r)
        ELSE Bind(write_header(r.header, r.file), LAMBDA w :
                [st |-> w.st, file |-> w.file, header |-> r.header])))

(***************************************************************************)
(* The file writes of one insert, in the order the code makes them.  Each   *)
(* operator below follows the operator of the same name without `_writes`   *)
(* and gives the sequence of writes it makes before it returns or fails.    *)
(***************************************************************************)
\* PageManager::allocate_page returned a = [st, file, page_id]
allocated(a) ==
    [op |-> "allocate_page", page_id |-> a.page_id, node_type |-> -1,
     root_page_id |-> -1, file |-> a.file]

\* BTree::write_page(page) returned w = [st, file]
page_written(page, w) ==
    [op |-> "write_page", page_id |-> page.page_id, node_type |-> page.node_type,
     root_page_id |-> -1, file |-> w.file]

\* BTree::write_header(h) returned w = [st, file]
header_written(h, w) ==
    [op |-> "write_header", page_id |-> -1, node_type |-> -1,
     root_page_id |-> h.root_page_id, file |-> w.file]

\* a faulty split_leaf: the right half is allocated but not written
split_leaf_writes_left_only(f, h, page_size, page, key, value) ==
    Bind(allocate_page(f, page_size), LAMBDA a :
        IF a.st # "ok" THEN <<>>
        ELSE
    Bind(split(page, a.page_id), LAMBDA s :
        IF s.st # "ok" THEN <<allocated(a)>>
        ELSE
    Bind(place_after_split(s, key, value, -1), LAMBDA pl :
        IF pl.st # "ok" THEN <<allocated(a)>>
        ELSE
    Bind(write_page(pl.page, a.file, page_size), LAMBDA w1 :
        IF w1.st # "ok" THEN <<allocated(a)>>
        ELSE <<allocated(a), page_written(pl.page, w1)>>))))

split_leaf_writes(f, h, page_size, page, key, value) ==
    Bind(allocate_page(f, page_size), LAMBDA a :
        IF a.st # "ok" THEN <<>>
        ELSE
    Bind(split(page, a.page_id), LAMBDA s :
        IF s.st # "ok" THEN <<allocated(a)>>
        ELSE
    Bind(place_after_split(s, key, value, -1), LAMBDA pl :
        IF pl.st # "ok" THEN <<allocated(a)>>
        ELSE
    Bind(write_page(pl.page, a.file, page_size), LAMBDA w1 :
        IF w1.st # "ok" THEN <<allocated(a)>>
        ELSE
    Bind(write_page(pl.right, w1.file, page_size), LAMBDA w2 :
        IF w2.st # "ok" THEN <<allocated(a), page_written(pl.page, w1)>>
        ELSE <<allocated(a), page_written(pl.page, w1), page_written(pl.right, w2)>>)))))

\* the update arm and the in-place insert arm make one write, their last step
insert_into_leaf_writes(f, h, page_size, page, key, value) ==
    Bind(find_exact_key(page, key), LAMBDA found :
        IF found.st # "ok" THEN <<>>
        ELSE IF found.v >= 0
             \/ can_insert(page, Len(SerializeKey(key)), Len(SerializeValue(value)))
        THEN Bind(insert_into_leaf(f, h, page_size, page, key, value), LAMBDA r :
                IF r.st # "ok" THEN <<>> ELSE <<page_written(r.page, r)>>)
        ELSE split_leaf_writes(f, h, page_size, page, key, value))

split_internal_writes(page_size, page, c) ==
    Bind(allocate_page(c.file, page_size), LAMBDA a :
        IF a.st # "ok" THEN <<>>
        ELSE
    Bind(split(page, a.page_id), LAMBDA s :
        IF s.st # "ok" THEN <<allocated(a)>>
        ELSE
    Bind(place_after_split(s, c.key, c.value, c.right.page_id), LAMBDA pl :
        IF pl.st # "ok" THEN <<allocated(a)>>
        ELSE
    Bind(write_page(pl.page, a.file, page_size), LAMBDA w1 :
        IF w1.st # "ok" THEN <<allocated(a)>>
        ELSE
    Bind(write_page(c.right, w1.file, page_size), LAMBDA w2 :
        IF w2.st # "ok" THEN <<allocated(a), page_written(pl.page, w1)>>
        ELSE
    Bind(write_page(pl.right, w2.file, page_size), LAMBDA w3 :
        IF w3.st # "ok"
        THEN <<allocated(a), page_written(pl.page, w1), page_written(c.right, w2)>>
        ELSE <<allocated(a), page_written(pl.page, w1), page_written(c.right, w2),
               page_written(pl.right, w3)>>))))))

absorb_promotion_writes(page_size, page, c) ==
    Bind(find_key_position(page, c.key), LAMBDA insert_pos :
        IF insert_pos.st # "ok" THEN <<>>
        ELSE IF can_insert(page, Len(SerializeKey(c.key)), Len(SerializeValue(c.value)))
        THEN Bind(insert_at_position(page, c.key, c.value, c.right.page_id), LAMBDA i :
                IF i.st # "ok" THEN <<>>
                ELSE
             Bind(write_page(i.page, c.file, page_size), LAMBDA w1 :
                IF w1.st # "ok" THEN <<>>
                ELSE
             Bind(write_page(c.right, w1.file, page_size), LAMBDA w2 :
                IF w2.st # "ok" THEN <<page_written(i.page, w1)>>
                ELSE <<page_written(i.page, w1), page_written(c.right, w2)>>)))
        ELSE split_internal_writes(page_size, page, c))

RECURSIVE insert_into_page_writes(_, _, _, _, _, _, _)
insert_into_page_writes(f, h, page_size, page, key, value, fuel) ==
    IF fuel = 0 THEN <<>>
    ELSE IF page.node_type = LEAF
    THEN insert_into_leaf_writes(f, h, page_size, page, key, value)
    ELSE
    Bind(get_pointer(page, key), LAMBDA child_id :
        IF child_id.st # "ok" THEN <<>>
        ELSE
    Bind(read_page(f, h, page_size, child_id.v), LAMBDA child :
        IF child.st # "ok" THEN <<>>
        ELSE
    Bind(insert_into_page(f, h, page_size, child.page, key, value, fuel - 1), LAMBDA c :
        insert_into_page_writes(f, h, page_size, child.page, key, value, fuel - 1)
        \o (IF c.st = "ok" /\ c.promoted THEN absorb_promotion_writes(page_size, page, c)
            ELSE <<>>))))

\* create_page writes the header, then allocates
split_root_writes(page_size, r) ==
    Bind(write_header(add_page(r.header), r.file), LAMBDA wh :
        IF wh.st # "ok" THEN <<>>
        ELSE
    Bind(create_page(r.header, INTERNAL, r.file, page_size), LAMBDA cp :
        IF cp.st # "ok" THEN <<header_written(add_page(r.header), wh)>>
        ELSE
    Bind(<<header_written(cp.header, wh), allocated([page_id |-> cp.page.page_id, file |-> cp.file])>>,
         LAMBDA created :
    Bind(insert(cp.page, 0, r.key, r.value), LAMBDA i :
        IF i.st # "ok" THEN created
        ELSE
    Bind(push_root_pointers(i.page, cp.header.root_page_id, r.right), LAMBDA new_root :
    Bind(write_page(new_root, cp.file, page_size), LAMBDA w1 :
        IF w1.st # "ok" THEN created
        ELSE
    Bind(write_page(r.page, w1.file, page_size), LAMBDA w2 :
        IF w2.st # "ok" THEN created \o <<page_written(new_root, w1)>>
        ELSE created \o <<page_written(new_root, w1), page_written(r.page, w2)>>)))))))

\* the writes of BTree::insert(key, value), from first to last
BTree_insert_writes(f, h, page_size, key, value) ==
    Bind(read_page(f, h, page_size, h.root_page_id), LAMBDA root :
        IF root.st # "ok" THEN <<>>
        ELSE
    Bind(insert_into_page(f, h, page_size, root.page, key, value, Fuel(f, page_size)),
         LAMBDA r :
        insert_into_page_writes(f, h, page_size, root.page, key, value, Fuel(f, page_size))
        \o (IF r.st # "ok" THEN <<>>
            ELSE IF r.promoted THEN split_root_writes(page_size, r)
            ELSE Bind(write_header(r.header, r.file), LAMBDA w :
                     IF w.st # "ok" THEN <<>> ELSE <<header_written(r.header, w)>>))))

(***************************************************************************)
(* The state machine: a client opens the file, inserts, searches, drops    *)
(* the handle and opens the file again.                                    *)
(***************************************************************************)
NoHeader == Header_new(0, 0, 0, 0, 0)

\* no insert is in progress and no write was followed
NoWrites ==
    [busy |-> FALSE, todo |-> <<>>, done |-> <<>>, written |-> {},
     key |-> 0, value |-> <<>>, root_page_id |-> 0, st |-> "ok", header |-> NoHeader]

\* the process died: a panic (panic!("Weird") apart from the others), or a
\* recursion that never returns
Crashed(st) == st \in {"panic", "Weird", "StackOverflow"}

\* a file BTree::new treats as new: too short for a header, or magic number 0
Blank(f) == Len(f) < 2 \/ from_le_bytes(SubSeq(f, 1, 2)) = 0

Init ==
    /\ overflow_checks \in BOOLEAN
    /\ writes = NoWrites
    /\ file \in {<<>>, Zeros(Header_SIZE)}
    /\ open = FALSE
    /\ header = NoHeader
    /\ pm_page_size = 0
    /\ shadow = [k \in Keys |-> NoValue]
    /\ clean = TRUE
    /\ reopened = FALSE
    /\ nops = 0
    /\ last = "ok"
    /\ slotted_page = SlottedPage_new(0, LEAF, 0)

\* BTree::new(file, page_size); a new file is always created with PageSize
Open(page_size) ==
    /\ ~open
    /\ Blank(file) => page_size = PageSize
    /\ LET r == BTree_new(file, page_size)
       IN /\ file' = r.file
          /\ open' = (r.st = "ok")
          /\ header' = IF r.st = "ok" THEN r.header ELSE NoHeader
          /\ pm_page_size' = IF r.st = "ok" THEN r.pm_page_size ELSE 0
          /\ clean' = (clean /\ r.st = "ok")
          /\ last' = r.st
    /\ reopened' = (reopened \/ nops > 0)
    /\ UNCHANGED <<shadow, nops, slotted_page, overflow_checks, writes>>

\* the handle is dropped
Close ==
    /\ open
    /\ open' = FALSE
    /\ header' = NoHeader
    /\ pm_page_size' = 0
    /\ UNCHANGED <<file, shadow, clean, reopened, nops, last, slotted_page, overflow_checks, writes>>

\* BTree::insert(key, value)
Insert(key, value) ==
    /\ open
    /\ nops < MaxOps
    /\ LET r == BTree_insert(file, header, pm_page_size, key, value)
       IN /\ file' = r.file
          /\ open' = ~Crashed(r.st)
          /\ header' = IF Crashed(r.st) THEN NoHeader ELSE r.header
          /\ pm_page_size' = IF Crashed(r.st) THEN 0 ELSE pm_page_size
          /\ shadow' = IF r.st = "ok" THEN [shadow EXCEPT ![key] = value] ELSE shadow
          /\ clean' = (clean /\ r.st = "ok")
          /\ last' = r.st
    /\ nops' = nops + 1
    /\ UNCHANGED <<reopened, slotted_page, overflow_checks, writes>>

\* BTree::search(key)
Search(key) ==
    /\ open
    /\ LET r == search(file, header, pm_page_size, key)
       IN /\ open' = ~Crashed(r.st)
          /\ header' = IF Crashed(r.st) THEN NoHeader ELSE header
          /\ pm_page_size' = IF Crashed(r.st) THEN 0 ELSE pm_page_size
          /\ last' = r.st
    /\ UNCHANGED <<file, shadow, clean, reopened, nops, slotted_page, overflow_checks, writes>>

Next ==
    \/ Open(PageSize)
    \/ Close
    \/ \E key \in Keys, value \in Values : Insert(key, value)
    \/ \E key \in Keys : Search(key)

Spec == Init /\ [][Next]_vars

\* the same client, but a reopen may pass any page_size argument
NextAnySize ==
    \/ \E page_size \in PageSizeArgs : Open(page_size)
    \/ Close
    \/ \E key \in Keys, value \in Values : Insert(key, value)
    \/ \E key \in Keys : Search(key)

SpecAnySize == Init /\ [][NextAnySize]_vars

(***************************************************************************)
(* The page API on its own: a client holds one SlottedPage in memory and   *)
(* calls insert (at find_key_position), update, delete, split, compact,    *)
(* and writes the page out and reads it back.                              *)
(***************************************************************************)
TinyLen == 43       \* length of the shortest value given to the page API
HugeLen == 214      \* length of a value whose entry all but fills an empty page
MaxPageOps == 4     \* number of page calls in a behaviour

\* with the first three a page can be filled to within a few bytes of its header
\* region; the fourth is an entry of more than page_size - Header_SIZE bytes
PageValues == Values \cup {Text(TinyLen)}

PageValuesAndHuge == PageValues \cup {Text(HugeLen)}

PageInit ==
    /\ overflow_checks \in BOOLEAN
    /\ writes = NoWrites
    /\ file = <<>>
    /\ open = FALSE
    /\ header = NoHeader
    /\ pm_page_size = 0
    /\ shadow = [k \in Keys |-> NoValue]
    /\ clean = TRUE
    /\ reopened = FALSE
    /\ nops = 0
    /\ last = "ok"
    /\ slotted_page \in {SlottedPage_new(0, node_type, PageSize) : node_type \in {INTERNAL, LEAF}}

\* the page call returned r = [st, page]
PageCall(r) ==
    /\ slotted_page' = r.page
    /\ last' = r.st
    /\ clean' = (clean /\ r.st = "ok")
    /\ nops' = nops + 1
    /\ UNCHANGED <<file, open, header, pm_page_size, shadow, reopened, overflow_checks, writes>>

PageAlive == ~Crashed(last) /\ nops < MaxPageOps

\* the page id the next pointer refers to
NextChild == nops + 1

\* insert as BTree calls it: at find_key_position, with the child pointer on an
\* INTERNAL page; the first entry of an INTERNAL page comes with both pointers
PageInsert(key, value) ==
    /\ PageAlive
    /\ PageCall(
           IF slotted_page.node_type = LEAF
           THEN insert_at_position(slotted_page, key, value, -1)
           ELSE IF slotted_page.pointers = <<>>
           THEN Bind(insert(slotted_page, 0, key, value), LAMBDA i :
                    IF i.st # "ok" THEN i
                    ELSE [st |-> "ok",
                          page |-> push_root_pointers(i.page, 0, [page_id |-> NextChild])])
           ELSE insert_at_position(slotted_page, key, value, NextChild))

\* update of a key the page holds
PageUpdate(key, value) ==
    /\ PageAlive
    /\ find_exact_key(slotted_page, key).st = "ok"
    /\ find_exact_key(slotted_page, key).v >= 0
    /\ PageCall(update(slotted_page, find_exact_key(slotted_page, key).v, key, value))

PageDelete(pos) ==
    /\ PageAlive
    /\ PageCall(delete(slotted_page, pos))

\* split; the client goes on with the left or with the right page
PageSplit(keep_right) ==
    /\ PageAlive
    /\ Bind(split(slotted_page, NextChild), LAMBDA s :
           PageCall([st |-> s.st,
                     page |-> IF s.st = "ok" /\ keep_right THEN s.right ELSE s.page]))

PageCompact ==
    /\ PageAlive
    /\ PageCall(compact(slotted_page))

\* write_page then read_page: the page goes through its serialized form; BTree
\* writes pages that have one pointer more than keys if INTERNAL, none if LEAF
PageReload ==
    /\ PageAlive
    /\ Len(slotted_page.slots) = slotted_page.num_keys
    /\ Len(slotted_page.pointers) =
           (IF slotted_page.node_type = INTERNAL THEN slotted_page.num_keys + 1 ELSE 0)
    /\ Bind(serialize(slotted_page), LAMBDA data :
           PageCall(IF data.st # "ok" THEN [st |-> data.st, page |-> slotted_page]
                    ELSE deserialize(data.bytes, slotted_page.page_size)))

PageNext ==
    \/ \E key \in Keys, value \in PageValuesAndHuge : PageInsert(key, value)
    \/ \E key \in Keys, value \in PageValuesAndHuge : PageUpdate(key, value)
    \/ \E pos \in 0..MaxKey : PageDelete(pos)
    \/ \E keep_right \in BOOLEAN : PageSplit(keep_right)
    \/ PageCompact
    \/ PageReload

PageSpec == PageInit /\ [][PageNext]_vars

(***************************************************************************)
(* The client of the tree again, on a handle that has already taken two    *)
(* inserts of long values: the root is an INTERNAL page whose separator is *)
(* SeedKeys[1], over an empty left leaf and a right leaf.  The client also *)
(* inserts the shortest value, which leaves room in the root for a second  *)
(* separator.                                                              *)
(***************************************************************************)
SeedKeys == <<MaxKey - 1, MaxKey>>

\* BTree::new on an empty file, then insert of SeedKeys in order; [st, file, header]
Seeded ==
    Bind(BTree_new(<<>>, PageSize), LAMBDA t :
        IF t.st # "ok" THEN [st |-> t.st, file |-> t.file, header |-> t.header]
        ELSE
    Bind(BTree_insert(t.file, t.header, PageSize, SeedKeys[1], Text(LongLen)), LAMBDA a :
        IF a.st # "ok" THEN a
        ELSE BTree_insert(a.file, a.header, PageSize, SeedKeys[2], Text(LongLen))))

SeededInit ==
    /\ overflow_checks \in BOOLEAN
    /\ writes = NoWrites
    /\ file = Seeded.file
    /\ open = TRUE
    /\ header = Seeded.header
    /\ pm_page_size = PageSize
    /\ shadow = [k \in Keys |-> IF k \in {SeedKeys[1], SeedKeys[2]} THEN Text(LongLen)
                                ELSE NoValue]
    /\ clean = (Seeded.st = "ok")
    /\ reopened = FALSE
    /\ nops = 0
    /\ last = Seeded.st
    /\ slotted_page = SlottedPage_new(0, LEAF, 0)

NextSeeded ==
    \/ Open(PageSize)
    \/ Close
    \/ \E key \in Keys, value \in PageValues : Insert(key, value)
    \/ \E key \in Keys : Search(key)

SpecSeeded == SeededInit /\ [][NextSeeded]_vars

(***************************************************************************)
(* The seeded tree again, with each insert taken file write by file write: *)
(* the call begins, its writes reach the file one at a time, it returns.   *)
(***************************************************************************)
MaxWriteOps == 3    \* number of insert calls followed write by write

\* the ids of the pages that the writes of a log hand to write_page
WrittenBy(events) ==
    {events[i].page_id : i \in {j \in 1..Len(events) : events[j].op = "write_page"}}

\* the pages written while Seeded was built: the root page by BTree::new, the
\* others by the two inserts
SeededWritten ==
    Bind(BTree_new(<<>>, PageSize), LAMBDA t :
    Bind(BTree_insert(t.file, t.header, PageSize, SeedKeys[1], Text(LongLen)), LAMBDA a :
        {t.header.root_page_id}
        \cup WrittenBy(BTree_insert_writes(t.file, t.header, PageSize,
                                           SeedKeys[1], Text(LongLen)))
        \cup WrittenBy(BTree_insert_writes(a.file, a.header, PageSize,
                                           SeedKeys[2], Text(LongLen)))))

WritesInit ==
    /\ overflow_checks \in BOOLEAN
    /\ writes = [NoWrites EXCEPT !.written = SeededWritten]
    /\ file = Seeded.file
    /\ open = TRUE
    /\ header = Seeded.header
    /\ pm_page_size = PageSize
    /\ shadow = [k \in Keys |-> IF k \in {SeedKeys[1], SeedKeys[2]} THEN Text(LongLen)
                                ELSE NoValue]
    /\ clean = (Seeded.st = "ok")
    /\ reopened = FALSE
    /\ nops = 0
    /\ last = Seeded.st
    /\ slotted_page = SlottedPage_new(0, LEAF, 0)

\* BTree::insert(key, value) is called: nothing is written yet
InsertBegin(key, value) ==
    /\ open
    /\ ~writes.busy
    /\ nops < MaxWriteOps
    /\ LET r == BTree_insert(file, header, pm_page_size, key, value)
       IN writes' = [busy |-> TRUE,
                     todo |-> BTree_insert_writes(file, header, pm_page_size, key, value),
                     done |-> <<>>,
                     written |-> writes.written,
                     key |-> key, value |-> value,
                     root_page_id |-> header.root_page_id,
                     st |-> r.st, header |-> r.header]
    /\ UNCHANGED <<file, open, header, pm_page_size, shadow, clean, reopened, nops, last,
                   slotted_page, overflow_checks>>

\* the next allocate_page, write_page or write_header of the insert reaches the file
WriteStep ==
    /\ writes.busy
    /\ writes.todo # <<>>
    /\ file' = Head(writes.todo).file
    /\ writes' = [writes EXCEPT !.todo = Tail(@),
                                !.done = Append(@, Head(writes.todo)),
                                !.written = @ \cup WrittenBy(<<Head(writes.todo)>>)]
    /\ UNCHANGED <<open, header, pm_page_size, shadow, clean, reopened, nops, last,
                   slotted_page, overflow_checks>>

\* the insert returns, or the process dies where the insert panics
InsertEnd ==
    /\ writes.busy
    /\ writes.todo = <<>>
    /\ writes' = [writes EXCEPT !.busy = FALSE]
    /\ open' = ~Crashed(writes.st)
    /\ header' = IF Crashed(writes.st) THEN NoHeader ELSE writes.header
    /\ pm_page_size' = IF Crashed(writes.st) THEN 0 ELSE pm_page_size
    /\ shadow' = IF writes.st = "ok" THEN [shadow EXCEPT ![writes.key] = writes.value]
                 ELSE shadow
    /\ clean' = (clean /\ writes.st = "ok")
    /\ last' = writes.st
    /\ nops' = nops + 1
    /\ UNCHANGED <<file, reopened, slotted_page, overflow_checks>>

NextWrites ==
    \/ \E key \in Keys, value \in PageValues : InsertBegin(key, value)
    \/ WriteStep
    \/ InsertEnd

SpecWrites == WritesInit /\ [][NextWrites]_vars

(***************************************************************************)
(* Vocabulary of the properties.                                           *)
(***************************************************************************)
\* the handle reads and writes pages with the page size the file was written with
Matched == pm_page_size = header.page_size

\* a handle on which every call so far succeeded
Sound == open /\ clean /\ Matched

\* Sound, and the handle is the one every insert so far was made on
OneHandle == Sound /\ ~reopened

Inserted == {k \in Keys : shadow[k] # NoValue}

\* every insert so far succeeded and no key was inserted twice
DistinctKeys == clean /\ Cardinality(Inserted) = nops

NoPage == SlottedPage_new(0, LEAF, 0)

\* the pages met when walking the child pointers from page_id, each with its
\* depth and with the outcome of reading it
RECURSIVE Reachable(_, _, _, _, _, _)
Reachable(f, h, page_size, page_id, depth, fuel) ==
    IF fuel = 0
    THEN {[page_id |-> page_id, depth |-> depth, st |-> "StackOverflow", page |-> NoPage]}
    ELSE LET node == read_page(f, h, page_size, page_id)
         IN {[page_id |-> page_id, depth |-> depth, st |-> node.st,
              page |-> IF node.st = "ok" THEN node.page ELSE NoPage]}
            \cup (IF node.st = "ok" /\ node.page.node_type = INTERNAL
                  THEN UNION {Reachable(f, h, page_size, node.page.pointers[i],
                                        depth + 1, fuel - 1) :
                                  i \in 1..Len(node.page.pointers)}
                  ELSE {})

\* the pages reachable from the root of the open handle
TreePages ==
    Reachable(file, header, pm_page_size, header.root_page_id, 0, Fuel(file, pm_page_size))

ReadablePages == {n \in TreePages : n.st = "ok"}

LeafPages == {n \in ReadablePages : n.page.node_type = LEAF}

InternalPages == {n \in ReadablePages : n.page.node_type = INTERNAL}

\* the slots of the reachable pages that hold key k, each with the value it holds
SlotsOf(k) ==
    UNION {{[page_id |-> n.page_id, index |-> i, value |-> read_value(n.page, i)] :
               i \in {j \in 0..(Len(n.page.slots) - 1) :
                         read_key(n.page, j) = [st |-> "ok", v |-> k]}} :
           n \in ReadablePages}

\* what search(k) answers on the open handle
Answer(k) == search(file, header, pm_page_size, k)

Found(v) == [st |-> "ok", v |-> v]

\* the arity a page must have
WellFormed(page) ==
    /\ Len(page.slots) = page.num_keys
    /\ page.node_type = INTERNAL => Len(page.pointers) = page.num_keys + 1
    /\ page.node_type = LEAF => Len(page.pointers) = 0

\* the root page as insert(key, value) would leave it in memory, with the
\* sibling it promotes
RootAfterInsert(key, value) ==
    LET root == read_page(file, header, pm_page_size, header.root_page_id)
    IN insert_into_page(file, header, pm_page_size, root.page, key, value,
                        Fuel(file, pm_page_size))

(***************************************************************************)
(* Properties.                                                             *)
(***************************************************************************)
\* C1: on one handle, after successful inserts of pairwise distinct keys (in any
\* order, through leaf, internal and root splits), search(k) returns exactly the
\* value inserted with k, for every key inserted so far.
C1_SearchAfterDistinctInserts ==
    (OneHandle /\ DistinctKeys) => \A k \in Inserted : Answer(k) = Found(shadow[k])

\* three distinct keys went in, an internal page was split, and all are found
C1_Witness ==
    /\ OneHandle /\ DistinctKeys /\ nops = MaxOps
    /\ \E n \in LeafPages : n.depth = 2
    /\ \A k \in Inserted : Answer(k) = Found(shadow[k])

\* C2: on one handle, after successful inserts in which keys may repeat, search(k)
\* returns the value of the most recent insert of k, also when k sat in an
\* INTERNAL page as a separator when it was inserted again.
C2_SearchAfterRepeatedInserts ==
    OneHandle => \A k \in Inserted : Answer(k) = Found(shadow[k])

\* C3: after successful inserts on a handle, BTree::new on the same file with the
\* same page_size answers every search as the handle did before it was dropped.
C3_ReopenAnswersAlike ==
    OneHandle =>
        LET r == BTree_new(file, pm_page_size)
        IN /\ r.st = "ok"
           /\ \A k \in Keys : search(r.file, r.header, r.pm_page_size, k) = Answer(k)

\* C4: an insert on a tree built by successful calls never returns PageOverflow,
\* whether the key is new or already present with a shorter value.
C4_InsertNeverOverflows == [][Sound => last' # "PageOverflow"]_vars

\* C5: on one handle, after successful inserts, every inserted key occupies exactly
\* one slot among the pages reachable from the root, and that slot holds the
\* value last inserted with the key.
C5_OneSlotPerKey ==
    OneHandle =>
        \A k \in Inserted :
            /\ Cardinality(SlotsOf(k)) = 1
            /\ \A slot \in SlotsOf(k) : slot.value = Found(shadow[k])

\* C6: search(k) for a key never inserted returns KeyNotFound carrying
\* k.to_string(), and leaves the file and the in-memory header as they were.
C6_SearchOfAbsentKey ==
    [][\A k \in Keys :
          (Sound /\ shadow[k] = NoValue /\ Search(k)) =>
              /\ Answer(k) = [st |-> "KeyNotFound", v |-> to_string(k)]
              /\ last' = "KeyNotFound"
              /\ file' = file
              /\ header' = header]_vars

\* a search just missed on a tree that has internal pages
C6_Witness ==
    /\ Sound /\ last = "KeyNotFound" /\ nops = MaxOps
    /\ InternalPages # {}
    /\ \E k \in Keys \ Inserted : Answer(k) = [st |-> "KeyNotFound", v |-> to_string(k)]

\* C7: BTree::new on a blank file yields root_page_id = 0 and page_count = 1, a
\* file of exactly one page, that page an empty LEAF, and a header on disk equal
\* to the one in memory.
C7_NewOnBlankFile ==
    [][(Blank(file) /\ Open(PageSize)) =>
          /\ open'
          /\ header'.root_page_id = 0
          /\ header'.page_count = 1
          /\ Len(file') = Header_SIZE + PageSize
          /\ LET root == read_page(file', header', pm_page_size', 0)
             IN /\ root.st = "ok"
                /\ root.page.node_type = LEAF
                /\ root.page.num_keys = 0
          /\ read_header(file') = [st |-> "ok", h |-> header']]_vars

\* C8: whatever page_size BTree::new was given on an existing file, every search
\* answers as it does when pages are located and sized by the persisted page size.
C8_PersistedPageSizeRules ==
    (open /\ clean) =>
        \A k \in Keys : Answer(k) = search(file, header, header.page_size, k)

\* C9: after successful inserts every page reachable from the root can be read
\* and all reachable LEAF pages are at the same depth.
C9_LeavesAtOneDepth ==
    Sound =>
        /\ TreePages = ReadablePages
        /\ \A a, b \in LeafPages : a.depth = b.depth

\* three leaves hang two levels below the root
C9_Witness ==
    /\ Sound /\ nops = MaxOps
    /\ Cardinality({n \in LeafPages : n.depth = 2}) >= 3
    /\ \A a, b \in LeafPages : a.depth = b.depth

\* C10: after successful inserts every page reachable from the root has
\* slots.len() = num_keys, num_keys + 1 pointers if INTERNAL and none if LEAF;
\* so has the root page an insert is about to write, and the sibling it promotes.
C10_PageArity ==
    Sound =>
        /\ \A n \in TreePages : n.st = "ok" /\ WellFormed(n.page)
        /\ \A key \in Keys, value \in Values :
              LET r == RootAfterInsert(key, value)
              IN r.st = "ok" => WellFormed(r.page) /\ (r.promoted => WellFormed(r.right))

\* an INTERNAL page without keys, one with a key, and leaves below them
C10_Witness ==
    /\ Sound /\ nops = MaxOps
    /\ \E n \in InternalPages : n.page.num_keys = 0 /\ Len(n.page.pointers) = 1
    /\ \E n \in InternalPages : n.page.num_keys = 1 /\ Len(n.page.pointers) = 2
    /\ \A n \in TreePages : n.st = "ok" /\ WellFormed(n.page)

(***************************************************************************)
(* Properties of pages.                                                    *)
(***************************************************************************)
\* the keys read from the slots of p in slot order, each as read_key returns it
KeysOf(p) == [i \in 1..Len(p.slots) |-> read_key(p, i - 1)]

\* every key can be read and each is greater than the one before it
KeysAscend(p) ==
    /\ \A i \in 1..Len(p.slots) : KeysOf(p)[i].st = "ok"
    /\ \A i \in 1..(Len(p.slots) - 1) : KeysOf(p)[i].v < KeysOf(p)[i + 1].v

\* C11: after successful tree inserts, the keys read from the slots of every page
\* reachable from the root, in slot order, are strictly increasing.
C11_KeysAscend ==
    Sound => \A n \in ReadablePages : KeysAscend(n.page)

\* the byte ranges [from, to) of the live slots of p, then of its free-list holes
SlotRanges(p) ==
    [i \in 1..Len(p.slots) |->
        [from |-> p.slots[i].offset,
         to |-> p.slots[i].offset + p.slots[i].key_length + p.slots[i].value_length]]

HoleRanges(p) ==
    [i \in 1..Len(p.free_list) |->
        [from |-> p.free_list[i].offset,
         to |-> p.free_list[i].offset + p.free_list[i].length]]

Ranges(p) == SlotRanges(p) \o HoleRanges(p)

Overlap(a, b) == a.from < b.to /\ b.from < a.to

\* no two ranges overlap and each lies in [free_space_end, page_size]
Layout(p) ==
    /\ \A i, j \in 1..Len(Ranges(p)) : i < j => ~Overlap(Ranges(p)[i], Ranges(p)[j])
    /\ \A i \in 1..Len(Ranges(p)) :
          Ranges(p)[i].from >= p.free_space_end /\ Ranges(p)[i].to <= p.page_size

\* C12: after any sequence of page calls from SlottedPage::new, no two live slot
\* byte ranges overlap, no hole overlaps a slot or another hole, and every slot and
\* hole starts at or above free_space_end and ends at or before page_size.
C12_RangesDisjoint == ~Crashed(last) => Layout(slotted_page)

\* two live entries and two holes, none adjacent to the other hole
C12_Witness ==
    /\ ~Crashed(last)
    /\ Len(slotted_page.slots) >= 2
    /\ Len(slotted_page.free_list) >= 2
    /\ Layout(slotted_page)

RECURSIVE HoleBytes(_)
HoleBytes(free_list) ==
    IF free_list = <<>> THEN 0 ELSE Head(free_list).length + HoleBytes(Tail(free_list))

\* the bytes between the end of the header region (header, slots, pointers, free
\* list as they are serialized) and free_space_end
ContiguousBytes(p) ==
    p.free_space_end
        - (HEADER_SIZE + SLOT_SIZE * Len(p.slots) + 8 * Len(p.pointers)
             + REGION_SIZE * Len(p.free_list))

\* C13: after every page call, total_free = (free_space_end - header_region_end)
\* + the sum of the hole lengths, with header_region_end = 17 + 6 * slots
\* + 8 * pointers + 4 * holes.
C13_TotalFreeIsExact ==
    ~Crashed(last) =>
        slotted_page.total_free
            = ContiguousBytes(slotted_page) + HoleBytes(slotted_page.free_list)

\* the (key, value) pairs of p in slot order, each as read_key and read_value return it
Entries(p) == [i \in 1..Len(p.slots) |-> <<read_key(p, i - 1), read_value(p, i - 1)>>]

\* the serialized length of the i-th entry of p
EntryBytes(p, i) ==
    Len(SerializeKey(read_key(p, i - 1).v)) + Len(SerializeValue(read_value(p, i - 1).v))

RECURSIVE LiveBytes(_, _)
LiveBytes(p, i) == IF i > Len(p.slots) THEN 0 ELSE EntryBytes(p, i) + LiveBytes(p, i + 1)

\* the entries of p lie back to back from page_size downward, in slot order
Packed(p) ==
    /\ \A i \in 1..Len(p.slots) :
          /\ p.slots[i].key_length + p.slots[i].value_length = EntryBytes(p, i)
          /\ p.slots[i].offset + EntryBytes(p, i)
                = (IF i = 1 THEN p.page_size ELSE p.slots[i - 1].offset)
    /\ p.free_space_end = p.page_size - LiveBytes(p, 1)

\* page q holds what page p holds
SameContent(p, q) ==
    /\ \A i \in 1..Len(p.slots) : Entries(p)[i][1].st = "ok" /\ Entries(p)[i][2].st = "ok"
    /\ Entries(q) = Entries(p)
    /\ q.pointers = p.pointers
    /\ q.num_keys = p.num_keys

\* C14: on every page reached by page calls, compact() returns Ok and leaves the
\* ordered (key, value) sequence and the child pointers unchanged, the free list
\* empty, free_space_end = page_size - (sum of the live entry lengths), and the
\* entries contiguous from page_size downward in slot order.
C14_CompactPacks ==
    ~Crashed(last) =>
        LET r == compact(slotted_page)
        IN /\ r.st = "ok"
           /\ SameContent(slotted_page, r.page)
           /\ r.page.free_list = <<>>
           /\ Packed(r.page)

\* serialize then deserialize gives back page p, field by field and entry by entry
RoundTrips(p) ==
    LET data == serialize(p)
        back == deserialize(data.bytes, p.page_size)
    IN /\ data.st = "ok"
       /\ back.st = "ok"
       /\ back.page.page_id = p.page_id
       /\ back.page.node_type = p.node_type
       /\ back.page.num_keys = p.num_keys
       /\ back.page.free_space_end = p.free_space_end
       /\ back.page.total_free = p.total_free
       /\ back.page.slots = p.slots
       /\ back.page.pointers = p.pointers
       /\ back.page.free_list = p.free_list
       /\ Entries(back.page) = Entries(p)

\* headers with a non-zero magic number
SomeHeaders ==
    {Header_new(magic_number, version, PageSize, root_page_id, page_count) :
        magic_number \in {1, 65535}, version \in {0, 1},
        root_page_id \in 0..MaxKey, page_count \in 0..MaxKey}

\* C15: every page reached by page calls that has one pointer more than keys if
\* INTERNAL and none if LEAF is given back by deserialize(serialize(p)), field by
\* field and entry by entry; every header with a non-zero magic number is given
\* back by Header::deserialize(serialize(h)).
C15_RoundTrip ==
    /\ (~Crashed(last) /\ WellFormed(slotted_page)) => RoundTrips(slotted_page)
    /\ \A h \in SomeHeaders : Header_deserialize(Header_serialize(h)) = [st |-> "ok", h |-> h]

\* C17: on every page reached by page calls, holes in its free list or not, if
\* can_insert(key_len, value_len) is true then insert of an entry of those
\* serialized lengths, at any position up to num_keys, does not fail with
\* PageOverflow: find_space_for finds room.
C17_CanInsertThenRoom ==
    ~Crashed(last) =>
        \A key \in Keys, value \in PageValuesAndHuge :
            can_insert(slotted_page, Len(SerializeKey(key)), Len(SerializeValue(value))) =>
                \A pos \in 0..Len(slotted_page.slots) :
                    insert(slotted_page, pos, key, value).st # "PageOverflow"

(***************************************************************************)
(* Properties of the file.                                                 *)
(***************************************************************************)
\* C16: when an insert on a handle built by successful calls returns Ok, the
\* header stored in the file equals the in-memory header, in page_count and in
\* root_page_id, also when the insert split the root.
C16_HeaderOnDisk ==
    [][\A key \in Keys, value \in Values :
          (Sound /\ Insert(key, value) /\ last' = "ok") =>
              read_header(file') = [st |-> "ok", h |-> header']]_vars

\* C18: in every tree reached and for every insert, the key placed after a
\* split differs from the promoted median, so no insert ends in
\* panic!("Weird"), neither in the leaf-split nor in the internal-split
\* placement, also when the key is already a separator of an INTERNAL page.
C18_NeverWeird == last # "Weird"

(***************************************************************************)
(* Properties of the writes of one insert.                                 *)
(***************************************************************************)
\* the places a write may take in the order (1) leaf page write, (2) new-page
\* allocation, (3) write of a split-created page, (4) write of the parent,
\* (5) header write carrying a changed root_page_id.  Each write is given every
\* place it can claim: a page allocated by this insert is split-created, and the
\* parent if INTERNAL; a LEAF page that was there before is the leaf, or the
\* left half of a split; an INTERNAL page that was there before is the parent,
\* or the left half of a split; a header write that leaves root_page_id as it
\* was may come anywhere.
Places(log, i) ==
    IF log[i].op = "allocate_page" THEN {2}
    ELSE IF log[i].op = "write_header"
    THEN (IF log[i].root_page_id # writes.root_page_id THEN {5} ELSE 1..5)
    ELSE IF \E j \in 1..(i - 1) : log[j].op = "allocate_page" /\ log[j].page_id = log[i].page_id
    THEN (IF log[i].node_type = INTERNAL THEN {3, 4} ELSE {3})
    ELSE IF log[i].node_type = LEAF THEN {1, 3}
    ELSE {3, 4}

\* the writes log[i..] can take places that never go down, starting at floor
RECURSIVE InOrder(_, _, _)
InOrder(log, i, floor) ==
    \/ i > Len(log)
    \/ \E c \in Places(log, i) :
          /\ c >= floor
          /\ \A d \in Places(log, i) : d >= floor => c <= d
          /\ InOrder(log, i + 1, c)

\* C19: the file writes an insert has made so far are in the order leaf page
\* write, new-page allocations, writes of split-created pages, write of the
\* parent, header write carrying a changed root_page_id, and never out of it.
C19_WritesInOrder == InOrder(writes.done, 1, 1)

\* page ids for which the file holds a page frame
AllocatedIds == {id \in 0..(Len(file) \div PageSize) : from_pageid(PageSize, id) + PageSize <= Len(file)}

\* page_id was allocated and has been written by write_page
OnDisk(page_id) == page_id \in AllocatedIds /\ page_id \in writes.written

\* the pointers of the page stored under page_id, if it is an INTERNAL page
PointersOnDisk(page_id) ==
    Bind(deserialize(pm_read_page(file, PageSize, page_id), PageSize), LAMBDA node :
        IF node.st = "ok" /\ node.page.node_type = INTERNAL
        THEN {node.page.pointers[i] : i \in 1..Len(node.page.pointers)}
        ELSE {})

\* C20: at every point between the file writes of an insert, root_page_id of
\* the header in the file and every child pointer of an INTERNAL page in the
\* file refer to a page that has been allocated and written by write_page: no
\* parent or new root is written before the sibling it newly refers to.
C20_PointersOnDisk ==
    /\ read_header(file).st = "ok" => OnDisk(read_header(file).h.root_page_id)
    /\ \A page_id \in writes.written :
           \A pointer \in PointersOnDisk(page_id) : OnDisk(pointer)

\* the write just made is that of a parent that was in the file before the
\* insert and now refers to a page this insert allocated, and the insert has
\* another write to make
C20_Witness ==
    /\ writes.busy
    /\ writes.todo # <<>>
    /\ writes.done # <<>>
    /\ LET log == writes.done
           e == log[Len(log)]
       IN /\ e.op = "write_page"
          /\ e.node_type = INTERNAL
          /\ \A j \in 1..Len(log) : log[j].op = "allocate_page" => log[j].page_id # e.page_id
          /\ \E j \in 1..Len(log) :
                /\ log[j].op = "allocate_page"
                /\ log[j].page_id \in PointersOnDisk(e.page_id)
    /\ C20_PointersOnDisk

(***************************************************************************)
(* Properties of the tree's shape and of the page manager.                 *)
(***************************************************************************)
\* the keys stored in the pages of the subtree under page_id
SubtreeKeys(page_id) ==
    UNION {{read_key(n.page, j).v : j \in 0..(Len(n.page.slots) - 1)} :
           n \in {m \in Reachable(file, header, pm_page_size, page_id, 0,
                                  Fuel(file, pm_page_size)) : m.st = "ok"}}

\* keys[i] bounds the subtree under pointers[i] from above, keys[i-1] from
\* below (i is 0-based, as in the source)
Bounded(page, i) ==
    \A k \in SubtreeKeys(page.pointers[i + 1]) :
        /\ i < Len(page.slots) => k <= read_key(page, i).v
        /\ i > 0 => k > read_key(page, i - 1).v

\* C21: after successful inserts, in every INTERNAL page the keys under
\* pointers[i] are <= keys[i] and > keys[i-1], those under the last pointer are
\* > the last key, and get_pointer(k) is pointers[find_key_position(k)], so a
\* key equal to the separator keys[i] is routed to pointers[i], its left child.
C21_SeparatorsBound ==
    Sound =>
        \A n \in InternalPages :
            /\ \A i \in 0..(Len(n.page.pointers) - 1) : Bounded(n.page, i)
            /\ \A k \in Keys :
                   get_pointer(n.page, k).st = "ok" =>
                       get_pointer(n.page, k).v =
                           n.page.pointers[find_key_position(n.page, k).v + 1]
            /\ \A i \in 0..(Len(n.page.slots) - 1) :
                   get_pointer(n.page, read_key(n.page, i).v) =
                       [st |-> "ok", v |-> n.page.pointers[i + 1]]

\* the page stored under page_id in file f holds exactly the entry (key, value)
\* and is an INTERNAL page with the given pointers
IsRootOver(f, page_id, key, value, pointers) ==
    Bind(deserialize(pm_read_page(f, PageSize, page_id), PageSize), LAMBDA node :
        /\ node.st = "ok"
        /\ node.page.node_type = INTERNAL
        /\ node.page.num_keys = 1
        /\ Len(node.page.slots) = 1
        /\ read_key(node.page, 0) = [st |-> "ok", v |-> key]
        /\ read_value(node.page, 0) = [st |-> "ok", v |-> value]
        /\ node.page.pointers = pointers)

\* what a successful insert that got the promotion r from the root did to the
\* file f0 with root old_root: it left file f1 and header h1
RootSplitBy(r, old_root, f1, h1) ==
    /\ Len(f1) = Len(r.file) + PageSize
    /\ SubSeq(f1, Header_SIZE + 1, Len(r.file)) =
           SubSeq(pm_write_page(r.file, PageSize, old_root, serialize(r.page).bytes),
                  Header_SIZE + 1, Len(r.file))
    /\ h1.root_page_id = to_pageid(PageSize, Len(r.file))
    /\ h1.root_page_id # old_root
    /\ r.page.page_id = old_root
    /\ IsRootOver(f1, h1.root_page_id, r.key, r.value, <<old_root, r.right.page_id>>)

\* C22: when the recursion from the root returns a promotion, a successful insert
\* allocates exactly one new page, an INTERNAL root that holds exactly the promoted
\* (key, value) at slot 0 with pointers [old_root_id, right_page_id];
\* header.root_page_id becomes the new page's id and the old root keeps its page
\* id; no other insert and no search changes root_page_id.
C22_RootSplit ==
    [][/\ \A key \in Keys, value \in PageValues :
              (Sound /\ Insert(key, value) /\ last' = "ok") =>
                  IF RootAfterInsert(key, value).promoted
                  THEN RootSplitBy(RootAfterInsert(key, value), header.root_page_id,
                                   file', header')
                  ELSE header'.root_page_id = header.root_page_id
       /\ \A key \in Keys :
              (Sound /\ Search(key) /\ ~Crashed(last')) =>
                  header'.root_page_id = header.root_page_id]_vars

\* the last call was an insert that split the root: the root is the page
\* allocated last, an INTERNAL page with one key over the old root and its sibling
C22_Witness ==
    /\ Sound /\ nops > 0 /\ last = "ok"
    /\ header.root_page_id = to_pageid(PageSize, Len(file) - PageSize)
    /\ \E n \in InternalPages :
          /\ n.page_id = header.root_page_id
          /\ n.page.num_keys = 1
          /\ Len(n.page.pointers) = 2
          /\ \E m \in InternalPages : m.page_id = n.page.pointers[1]

\* number of whole pages by which file f1 is longer than file f0
PagesAppended(f0, f1) == (Len(f1) - Len(f0)) \div PageSize

\* page_count of the header stored in file f, 0 while none is stored
PageCountOnDisk(f) ==
    IF Len(f) >= Header_SIZE /\ read_header(f).st = "ok" THEN read_header(f).h.page_count
    ELSE 0

\* C23: every successful insert increases header.page_count by exactly the
\* number of pages it appended to the file: 0 when nothing split, one per split
\* page plus one for a new root; and page_count never decreases, neither on the
\* handle nor in the file.
C23_PageCountFollowsFile ==
    [][/\ \A key \in Keys, value \in PageValues :
              (Sound /\ Insert(key, value) /\ last' = "ok") =>
                  /\ Len(file') = Len(file) + PagesAppended(file, file') * PageSize
                  /\ header'.page_count = header.page_count + PagesAppended(file, file')
       /\ (open /\ open') => header'.page_count >= header.page_count
       /\ PageCountOnDisk(file') >= PageCountOnDisk(file)]_vars

\* two inserts have split pages: the file holds the initial page and at least
\* three more, and the count on the handle went up with them
C23_Witness ==
    /\ Sound /\ nops >= 2 /\ last = "ok"
    /\ PagesAppended(Zeros(Header_SIZE + PageSize), file) >= 3
    /\ header.page_count >= 1 + PagesAppended(Zeros(Header_SIZE + PageSize), file)

\* the allocations among the writes of a log, in order
RECURSIVE Allocations(_)
Allocations(log) ==
    IF log = <<>> THEN <<>>
    ELSE (IF Head(log).op = "allocate_page" THEN <<Head(log)>> ELSE <<>>)
         \o Allocations(Tail(log))

\* file f is a header followed by n whole pages
WholePages(f, n) == Len(f) = Header_SIZE + n * PageSize

\* allocate_page on f, a header and n pages: it returns n, appends page_size
\* zero bytes and keeps the bytes of f; read_page(n) and write_page(n) address
\* exactly the appended bytes, and the next allocation returns n + 1
AllocatesNext(f, n) ==
    Bind(allocate_page(f, PageSize), LAMBDA a :
        /\ a.st = "ok"
        /\ a.page_id = n
        /\ a.file = f \o Zeros(PageSize)
        /\ from_pageid(PageSize, n) = Len(f)
        /\ pm_read_page(a.file, PageSize, n) = SubSeq(a.file, Len(f) + 1, Len(a.file))
        /\ pm_write_page(a.file, PageSize, n, [i \in 1..PageSize |-> 255])
               = f \o [i \in 1..PageSize |-> 255]
        /\ allocate_page(a.file, PageSize).page_id = n + 1)

\* C24: allocate_page on a file of length header_size + n * page_size returns n,
\* extends the file by exactly page_size zero bytes and leaves the bytes before
\* them as they were; successive allocations return 0, 1, 2, ... and no id
\* twice; the appended bytes are the range read_page(n) and write_page(n)
\* address.
C24_AllocatePage ==
    /\ AllocatesNext(Zeros(Header_SIZE), 0)
    /\ \A n \in 0..(Len(file) \div PageSize) : WholePages(file, n) => AllocatesNext(file, n)
    /\ \A i \in 1..Len(Allocations(writes.done)) :
           /\ WholePages(Allocations(writes.done)[i].file,
                         Allocations(writes.done)[i].page_id + 1)
           /\ i > 1 => Allocations(writes.done)[i].page_id
                           = Allocations(writes.done)[i - 1].page_id + 1

\* an insert has allocated two pages, one after the other
C24_Witness ==
    /\ writes.busy
    /\ Len(Allocations(writes.done)) >= 2
    /\ \E n \in 1..(Len(file) \div PageSize) : WholePages(file, n)
    /\ C24_AllocatePage

\* the keys of p in slot order
PlainKeys(p) == [i \in 1..Len(p.slots) |-> read_key(p, i - 1).v]

\* split(p) = s promoted the entry at mid = n / 2, kept the mid entries before it
\* on the left and moved those after it to the right, keys and pointers alike
SplitsAtMedian(p, s) ==
    Bind(Len(p.slots), LAMBDA n :
    Bind(n \div 2, LAMBDA mid :
        /\ s.st = "ok"
        /\ <<[st |-> "ok", v |-> s.key], [st |-> "ok", v |-> s.value]>> = Entries(p)[mid + 1]
        /\ s.page.num_keys = mid
        /\ Entries(s.page) = SubSeq(Entries(p), 1, mid)
        /\ s.right.num_keys = n - mid - 1
        /\ Entries(s.right) = SubSeq(Entries(p), mid + 2, n)
        /\ \A i \in 1..mid : PlainKeys(s.page)[i] < s.key
        /\ \A i \in 1..(n - mid - 1) : s.key < PlainKeys(s.right)[i]
        /\ p.node_type = INTERNAL =>
               /\ s.page.pointers = SubSeq(p.pointers, 1, mid + 1)
               /\ s.right.pointers = SubSeq(p.pointers, mid + 2, n + 1)
        /\ WellFormed(s.page)
        /\ WellFormed(s.right)))

\* C25: split on a page of the tree with n >= 1 keys returns the entry at index
\* mid = n / 2, leaves the left page the first mid entries (num_keys = mid) and
\* gives the right page the entries mid+1..n-1 in order, every left key < median
\* < every right key; on INTERNAL pages pointers[0..=mid] stay and
\* pointers[mid+1..] move, so each side has num_keys + 1 pointers.
C25_SplitAtMedian ==
    Sound =>
        \A n \in ReadablePages :
            (WellFormed(n.page) /\ n.page.num_keys >= 1) =>
                SplitsAtMedian(n.page, split(n.page, to_pageid(PageSize, Len(file))))

\* serialize accepts the page: the header region ends at or before free_space_end
Serializable(p) == serialize(p).st = "ok"

\* C26: every page that a successful insert, update, delete, split or compact
\* makes of a serializable page keeps 17 + 6 * slots + 8 * pointers + 4 * holes
\* <= free_space_end, so serialize does not return InvalidBufferSize; also after
\* an in-place shrinking update or a delete that adds a free-list entry to a
\* page without contiguous space.
C26_StaysSerializable ==
    [][(Serializable(slotted_page) /\ WellFormed(slotted_page) /\ last' = "ok")
          => /\ HEADER_SIZE + SLOT_SIZE * Len(slotted_page'.slots)
                    + 8 * Len(slotted_page'.pointers)
                    + REGION_SIZE * Len(slotted_page'.free_list)
                 <= slotted_page'.free_space_end
             /\ serialize(slotted_page').st # "InvalidBufferSize"]_vars

\* the bytes of the entry in slot pos (0-based) of p
EntryRange(p, pos) ==
    [offset |-> p.slots[pos + 1].offset,
     length |-> p.slots[pos + 1].key_length + p.slots[pos + 1].value_length]

\* C27: delete(pos) of an entry whose bytes begin at free_space_end merges the
\* freed range, with any hole it coalesces with, into the contiguous region:
\* free_space_end rises to the end of the freed range or beyond, and no hole is
\* recorded for it.
C27_DeleteAtBoundaryMerges ==
    [][\A pos \in 0..MaxKey :
          (/\ PageDelete(pos)
           /\ last' = "ok"
           /\ WellFormed(slotted_page)
           /\ EntryRange(slotted_page, pos).offset = slotted_page.free_space_end)
          => /\ slotted_page'.free_space_end
                    >= slotted_page.free_space_end + EntryRange(slotted_page, pos).length
             /\ \A i \in 1..Len(slotted_page'.free_list) :
                    slotted_page'.free_list[i].offset >= slotted_page'.free_space_end]_vars

\* the end of the page header, the slot array, the pointer array and the
\* free-list array of p
ArraysEnd(p) ==
    HEADER_SIZE + SLOT_SIZE * Len(p.slots) + 8 * Len(p.pointers)
        + REGION_SIZE * Len(p.free_list)

\* what an entry of these lengths needs: its slot, its bytes, and a child
\* pointer on an INTERNAL page
Needed(p, key_len, value_len) ==
    SLOT_SIZE + key_len + value_len + (IF p.node_type = INTERNAL THEN 8 ELSE 0)

\* C28: can_insert(key_len, value_len) is true iff 6 + key_len + value_len, plus
\* 8 on an INTERNAL page, is <= free_space_end - header_region_end, the latter
\* counting the page header, the slots, the pointers and 4 bytes per hole.
C28_CanInsertIsContiguousFit ==
    (~Crashed(last) /\ WellFormed(slotted_page) /\ Serializable(slotted_page)) =>
        \A value_len \in 0..PageSize :
            can_insert(slotted_page, Len(SerializeKey(0)), value_len)
                <=> (Needed(slotted_page, Len(SerializeKey(0)), value_len)
                        <= slotted_page.free_space_end - ArraysEnd(slotted_page))

\* the holes of p that can take len bytes, by 1-based index
Fitting(p, len) == {i \in 1..Len(p.free_list) : p.free_list[i].length >= len}

\* the place the claim gives to len bytes: [found, offset, idx], idx 0 for
\* contiguous space
Chosen(p, len) ==
    IF \E i \in Fitting(p, len) : p.free_list[i].length = len
    THEN Bind(CHOOSE i \in Fitting(p, len) :
                 /\ p.free_list[i].length = len
                 /\ \A j \in Fitting(p, len) : p.free_list[j].length = len => i <= j,
              LAMBDA i : [found |-> TRUE, offset |-> p.free_list[i].offset, idx |-> i])
    ELSE IF Fitting(p, len) # {}
    THEN Bind(CHOOSE i \in Fitting(p, len) :
                 \A j \in Fitting(p, len) :
                     \/ p.free_list[i].length < p.free_list[j].length
                     \/ p.free_list[i].length = p.free_list[j].length /\ i <= j,
              LAMBDA i : [found |-> TRUE, offset |-> p.free_list[i].offset, idx |-> i])
    ELSE IF p.free_space_end - len >= header_region_end(p) + SLOT_SIZE
    THEN [found |-> TRUE, offset |-> p.free_space_end - len, idx |-> 0]
    ELSE [found |-> FALSE, offset |-> 0, idx |-> 0]

\* insert(p, pos, key, value) = r put the entry of len bytes where c says and
\* took the bytes from the front of the hole, or from the contiguous space
PlacedAt(p, pos, len, c, r) ==
    /\ c.found
    /\ r.page.slots[pos + 1].offset = c.offset
    /\ IF c.idx = 0
       THEN r.page.free_space_end = c.offset /\ r.page.free_list = p.free_list
       ELSE /\ r.page.free_space_end = p.free_space_end
            /\ r.page.free_list =
                   IF p.free_list[c.idx].length = len
                   THEN SubSeq(p.free_list, 1, c.idx - 1)
                            \o SubSeq(p.free_list, c.idx + 1, Len(p.free_list))
                   ELSE [p.free_list EXCEPT
                            ![c.idx] = [offset |-> c.offset + len,
                                        length |-> p.free_list[c.idx].length - len]]

\* C29: find_space_for(len) takes the first hole of length len; else the hole of
\* length >= len with the least surplus, the earliest of equals; else the
\* contiguous offset free_space_end - len if that is >= header_region_end + 6;
\* else none.  A fitting hole goes before contiguous space, and insert removes a
\* hole it consumes and makes a longer one start at offset + len.
C29_FindSpaceFor ==
    (~Crashed(last) /\ WellFormed(slotted_page)) =>
        /\ \A len \in 1..PageSize : find_space_for(slotted_page, len) = Chosen(slotted_page, len)
        /\ \A key \in Keys, value \in PageValuesAndHuge, pos \in 0..Len(slotted_page.slots) :
               insert(slotted_page, pos, key, value).st = "ok" =>
                   PlacedAt(slotted_page, pos,
                            Len(SerializeKey(key)) + Len(SerializeValue(value)),
                            Chosen(slotted_page,
                                   Len(SerializeKey(key)) + Len(SerializeValue(value))),
                            insert(slotted_page, pos, key, value))

\* the page has two holes, the first the longer, and room in its contiguous
\* space for an entry that fits in both; an entry lies at the front of a hole
C29_Witness ==
    /\ ~Crashed(last) /\ WellFormed(slotted_page)
    /\ Len(slotted_page.free_list) >= 2
    /\ slotted_page.free_list[1].length > slotted_page.free_list[2].length
    /\ \E len \in 1..PageSize :
          /\ Fitting(slotted_page, len) = {1, 2}
          /\ slotted_page.free_space_end - len >= header_region_end(slotted_page) + SLOT_SIZE
          /\ find_space_for(slotted_page, len).idx = 2
    /\ \E i \in 1..Len(slotted_page.slots) :
          slotted_page.slots[i].offset > slotted_page.free_space_end
    /\ C29_FindSpaceFor

\* Page::find_key_position: keys.iter().position(|k| key <= k), or keys.len()
RECURSIVE position(_, _, _)
position(keys, key, i) ==
    IF i > Len(keys) THEN Len(keys)
    ELSE IF key <= keys[i] THEN i - 1
    ELSE position(keys, key, i + 1)

\* the keys a lookup is asked for: those of the clients, one below and one above
ProbeKeys == 0..(MaxKey + 1)

\* C30: on a page whose slot keys are strictly increasing, find_key_position(k)
\* is the smallest index i with keys[i] >= k, or num_keys if there is none, which
\* is what a scan from the left gives, and find_exact_key(k) is Some(i) exactly
\* when keys[i] = k and None otherwise.
C30_FindKey ==
    (~Crashed(last) /\ WellFormed(slotted_page) /\ KeysAscend(slotted_page)) =>
        \A k \in ProbeKeys :
            Bind(PlainKeys(slotted_page), LAMBDA keys :
            Bind(find_key_position(slotted_page, k), LAMBDA pos :
            Bind(find_exact_key(slotted_page, k), LAMBDA found :
                /\ pos.st = "ok" /\ pos.v \in 0..slotted_page.num_keys
                /\ \A i \in 1..Len(keys) : (keys[i] >= k) <=> (i - 1 >= pos.v)
                /\ pos.v = position(keys, k, 1)
                /\ found.st = "ok"
                /\ \A i \in 0..(Len(keys) - 1) : (found.v = i) <=> (keys[i + 1] = k)
                /\ found.v = -1 <=> (\A i \in 1..Len(keys) : keys[i] # k))))

\* a page of three keys: one of them is found in the middle, and a key greater
\* than all of them has position num_keys and is not found
C30_Witness ==
    /\ ~Crashed(last) /\ WellFormed(slotted_page) /\ KeysAscend(slotted_page)
    /\ slotted_page.num_keys = 3
    /\ \E k \in ProbeKeys : find_exact_key(slotted_page, k).v = 1
    /\ \E k \in ProbeKeys :
          /\ find_key_position(slotted_page, k).v = slotted_page.num_keys
          /\ find_exact_key(slotted_page, k).v = -1
    /\ C30_FindKey

\* the holes lie in ascending offset and none ends where another begins
Tidy(free_list) ==
    /\ \A i \in 1..(Len(free_list) - 1) : free_list[i].offset < free_list[i + 1].offset
    /\ \A i, j \in 1..Len(free_list) :
           free_list[i].offset + free_list[i].length # free_list[j].offset

\* the holes of p that end where the byte range r begins, and those that begin
\* where it ends
Before(p, r) ==
    {i \in 1..Len(p.free_list) : p.free_list[i].offset + p.free_list[i].length = r.offset}
After(p, r) ==
    {i \in 1..Len(p.free_list) : p.free_list[i].offset = r.offset + r.length}
Touching(p, r) == Before(p, r) \cup After(p, r)

\* the bytes of the holes of p whose index is in the set s of at most one index
Bytes(p, s) == IF s = {} THEN 0 ELSE p.free_list[CHOOSE i \in s : TRUE].length

\* freeing the range r of p gave q: the holes that touched r and r itself are one
\* hole of q, and the other holes of p are the other holes of q
MergedInto(p, r, q) ==
    /\ Cardinality(Before(p, r)) <= 1 /\ Cardinality(After(p, r)) <= 1
    /\ \E k \in 1..Len(q.free_list) :
          /\ q.free_list[k].offset = r.offset - Bytes(p, Before(p, r))
          /\ q.free_list[k].length =
                 Bytes(p, Before(p, r)) + r.length + Bytes(p, After(p, r))
          /\ {q.free_list[j] : j \in 1..Len(q.free_list) \ {k}}
                 = {p.free_list[i] : i \in 1..Len(p.free_list) \ Touching(p, r)}
    /\ Len(q.free_list) = Len(p.free_list) - Cardinality(Touching(p, r)) + 1

\* C31: after any sequence of page operations the free list is sorted by ascending
\* offset and no hole ends exactly where another begins; freeing a range next to
\* one or to two holes yields a single merged hole.
C31_FreeListCoalesced ==
    (~Crashed(last) /\ WellFormed(slotted_page)) =>
        /\ Tidy(slotted_page.free_list)
        /\ \A pos \in 0..(Len(slotted_page.slots) - 1) :
               Bind(delete(slotted_page, pos), LAMBDA d :
                   /\ d.st = "ok"
                   /\ Tidy(d.page.free_list)
                   /\ MergedInto(slotted_page, EntryRange(slotted_page, pos), d.page))

\* an entry lies between two holes, and delete makes the three ranges one hole
C31_Witness ==
    /\ ~Crashed(last) /\ WellFormed(slotted_page)
    /\ \E pos \in 0..(Len(slotted_page.slots) - 1) :
          /\ Cardinality(Touching(slotted_page, EntryRange(slotted_page, pos))) = 2
          /\ Len(delete(slotted_page, pos).page.free_list) = Len(slotted_page.free_list) - 1
    /\ C31_FreeListCoalesced

RECURSIVE SlotBytes(_)
SlotBytes(slots) ==
    IF slots = <<>> THEN 0
    ELSE Head(slots).key_length + Head(slots).value_length + SlotBytes(Tail(slots))

\* byte b of the page lies in the range r
Within(b, r) == r.from <= b /\ b < r.to

\* every byte of [free_space_end, page_size) lies in one live slot or hole and in
\* no other, and no slot or hole has a byte outside
CoveredOnce(p) ==
    /\ \A b \in p.free_space_end..(p.page_size - 1) :
          Cardinality({i \in 1..Len(Ranges(p)) : Within(b, Ranges(p)[i])}) = 1
    /\ \A i \in 1..Len(Ranges(p)) :
          Ranges(p)[i].from >= p.free_space_end /\ Ranges(p)[i].to <= p.page_size

\* C32: after any sequence of page-level insert, update, delete and split, the
\* live slot ranges and the holes cover every byte of [free_space_end, page_size)
\* exactly once, and free_space_end = page_size - live bytes - hole bytes.
C32_DataRegionCovered ==
    ~Crashed(last) =>
        /\ CoveredOnce(slotted_page)
        /\ slotted_page.free_space_end
               = slotted_page.page_size - SlotBytes(slotted_page.slots)
                     - HoleBytes(slotted_page.free_list)

\* a page with a hole between two live entries
C32_Witness ==
    /\ ~Crashed(last)
    /\ \E h \in 1..Len(slotted_page.free_list), i, j \in 1..Len(slotted_page.slots) :
          slotted_page.slots[i].offset < slotted_page.free_list[h].offset
              /\ slotted_page.free_list[h].offset < slotted_page.slots[j].offset
    /\ C32_DataRegionCovered

\* total_free is the page less its fixed header and the bytes of its live entries
TotalFreeExact(p) == p.total_free = p.page_size - HEADER_SIZE - SlotBytes(p.slots)

\* a step of insert, update, delete or split
EntryCall ==
    \/ \E key \in Keys, value \in PageValuesAndHuge : PageInsert(key, value)
    \/ \E key \in Keys, value \in PageValuesAndHuge : PageUpdate(key, value)
    \/ \E pos \in 0..MaxKey : PageDelete(pos)
    \/ \E keep_right \in BOOLEAN : PageSplit(keep_right)

RECURSIVE InsertedInOrder(_, _, _)
InsertedInOrder(q, pairs, i) ==
    IF i > Len(pairs) THEN [st |-> "ok", page |-> q]
    ELSE Bind(insert(q, Len(q.slots), pairs[i].key, pairs[i].value), LAMBDA r :
            IF r.st # "ok" THEN r ELSE InsertedInOrder(r.page, pairs, i + 1))

\* the entries of p inserted in slot order into a fresh page of its size and type
Rebuilt(p) ==
    Bind(read_pairs(p, 0, <<>>), LAMBDA pairs :
        IF pairs.st # "ok" THEN [st |-> pairs.st, page |-> p]
        ELSE InsertedInOrder(SlottedPage_new(p.page_id, p.node_type, p.page_size),
                             pairs.v, 1))

\* C34: compact() leaves the page as inserting its entries in slot order into a
\* fresh page of the same size and node type leaves that page: the same slot
\* offsets, the same free_space_end, an empty free list and the same total_free.
C34_CompactIsRebuild ==
    (~Crashed(last) /\ WellFormed(slotted_page) /\ Rebuilt(slotted_page).st = "ok") =>
        Bind(compact(slotted_page), LAMBDA c :
        Bind(Rebuilt(slotted_page).page, LAMBDA fresh :
            /\ c.st = "ok"
            /\ c.page.slots = fresh.slots
            /\ c.page.free_space_end = fresh.free_space_end
            /\ c.page.free_list = <<>> /\ fresh.free_list = <<>>
            /\ c.page.total_free = fresh.total_free))

\* what C34 says of the layout, without total_free: it holds wherever compact
\* returns Ok
C34_LayoutIsRebuild ==
    (~Crashed(last) /\ WellFormed(slotted_page) /\ Rebuilt(slotted_page).st = "ok"
         /\ compact(slotted_page).st = "ok") =>
        Bind(compact(slotted_page), LAMBDA c :
        Bind(Rebuilt(slotted_page).page, LAMBDA fresh :
            /\ c.page.slots = fresh.slots
            /\ c.page.free_space_end = fresh.free_space_end
            /\ c.page.free_list = <<>> /\ fresh.free_list = <<>>
            /\ c.page.total_free = U16(fresh.total_free - (Header_SIZE - HEADER_SIZE))))

\* the entry (key, value) as Entries gives it
Read(key, value) == <<[st |-> "ok", v |-> key], [st |-> "ok", v |-> value]>>

\* C35: page-level insert(pos), update(pos) and delete(pos) leave the key and
\* value read back from every other slot unchanged and keep their order; delete
\* removes exactly the slot at pos and lowers num_keys by one, update leaves
\* num_keys unchanged, insert raises it by one.
C35_OtherSlotsKept ==
    (~Crashed(last) /\ WellFormed(slotted_page)) =>
        /\ \A pos \in 0..Len(slotted_page.slots), key \in Keys, value \in PageValuesAndHuge :
               Bind(insert(slotted_page, pos, key, value), LAMBDA r :
                   r.st = "ok" =>
                       /\ Entries(r.page) = VecInsert(Entries(slotted_page), pos, Read(key, value))
                       /\ r.page.num_keys = slotted_page.num_keys + 1)
        /\ \A pos \in 0..(Len(slotted_page.slots) - 1), key \in Keys,
              value \in PageValuesAndHuge :
               Bind(update(slotted_page, pos, key, value), LAMBDA r :
                   r.st = "ok" =>
                       /\ Entries(r.page)
                              = [Entries(slotted_page) EXCEPT ![pos + 1] = Read(key, value)]
                       /\ r.page.num_keys = slotted_page.num_keys)
        /\ \A pos \in 0..(Len(slotted_page.slots) - 1) :
               Bind(delete(slotted_page, pos), LAMBDA r :
                   /\ r.st = "ok"
                   /\ Entries(r.page) = VecRemove(Entries(slotted_page), pos)
                   /\ r.page.num_keys = slotted_page.num_keys - 1)

\* a page of two entries with a hole, on which an insert between the two, an
\* update that moves the first and a delete of the first all return Ok
C35_Witness ==
    /\ ~Crashed(last) /\ WellFormed(slotted_page)
    /\ Len(slotted_page.slots) = 2
    /\ Len(slotted_page.free_list) >= 1
    /\ \E key \in Keys, value \in PageValuesAndHuge :
          insert(slotted_page, 1, key, value).st = "ok"
    /\ \E key \in Keys, value \in PageValuesAndHuge :
          /\ Len(SerializeValue(value)) > slotted_page.slots[1].value_length
          /\ update(slotted_page, 0, key, value).st = "ok"
    /\ delete(slotted_page, 0).st = "ok"
    /\ C35_OtherSlotsKept

\* the descent for key from page_id ends in a leaf that holds key, and update of
\* its slot with value returns an error
RECURSIVE UpdateFails(_, _, _, _, _, _, _)
UpdateFails(f, h, page_size, page_id, key, value, fuel) ==
    /\ fuel > 0
    /\ Bind(read_page(f, h, page_size, page_id), LAMBDA node :
          /\ node.st = "ok"
          /\ IF node.page.node_type = INTERNAL
             THEN /\ get_pointer(node.page, key).st = "ok"
                  /\ UpdateFails(f, h, page_size, get_pointer(node.page, key).v,
                                 key, value, fuel - 1)
             ELSE /\ find_exact_key(node.page, key).st = "ok"
                  /\ find_exact_key(node.page, key).v >= 0
                  /\ update(node.page, find_exact_key(node.page, key).v, key, value).st
                         \notin {"ok", "panic"})

\* C36: if BTree.insert of a key that is present returns an error from the leaf
\* update path, no byte of the file and no field of the in-memory header has
\* changed, and every search returns what it returned before the call.
C36_FailedUpdateChangesNothing ==
    [][\A key \in Keys, value \in PageValues :
          (Insert(key, value)
             /\ UpdateFails(file, header, pm_page_size, header.root_page_id, key, value,
                            Fuel(file, pm_page_size)))
          => /\ last' \notin {"ok", "panic"}
             /\ file' = file
             /\ header' = header
             /\ \A k \in Keys :
                   search(file', header', pm_page_size', k)
                       = search(file, header, pm_page_size, k)]_vars

\* the last insert failed in update, and the key it was for is still found with
\* the value it had
C36_Witness ==
    /\ open /\ last = "PageOverflow"
    /\ \E key \in Keys, value \in Values :
          /\ UpdateFails(file, header, pm_page_size, header.root_page_id, key, value,
                         Fuel(file, pm_page_size))
          /\ search(file, header, pm_page_size, key) = Found(shadow[key])
          /\ shadow[key] # value

\* positions at and past the end of the slots
PastTheEnd(p) == p.num_keys..(p.num_keys + 2)

\* C37: delete(pos) with any pos >= num_keys, pos = num_keys included, returns
\* KeyNotFound without panicking and leaves slots, num_keys, the free list,
\* free_space_end and total_free unchanged.
C37_DeletePastEnd ==
    (~Crashed(last) /\ WellFormed(slotted_page)) =>
        \A pos \in PastTheEnd(slotted_page) :
            delete(slotted_page, pos) = [st |-> "KeyNotFound", page |-> slotted_page]

\* what C37 says of the positions above num_keys: it holds in every state
C37_DeleteAboveEnd ==
    (~Crashed(last) /\ WellFormed(slotted_page)) =>
        \A pos \in PastTheEnd(slotted_page) \ {slotted_page.num_keys} :
            delete(slotted_page, pos) = [st |-> "KeyNotFound", page |-> slotted_page]

(***************************************************************************)
(* The client of the tree on a backing file that exists already and holds  *)
(* fewer bytes than a header, or just a header.                            *)
(***************************************************************************)
\* the shortest and the longest file of fewer bytes than a header among them
ShortFiles == {Zeros(n) : n \in {0, 1, Header_SIZE - 1, Header_SIZE}}

InitShortFile ==
    /\ overflow_checks \in BOOLEAN
    /\ writes = NoWrites
    /\ file \in ShortFiles
    /\ open = FALSE
    /\ header = NoHeader
    /\ pm_page_size = 0
    /\ shadow = [k \in Keys |-> NoValue]
    /\ clean = TRUE
    /\ reopened = FALSE
    /\ nops = 0
    /\ last = "ok"
    /\ slotted_page = SlottedPage_new(0, LEAF, 0)

SpecShortFile == InitShortFile /\ [][Next]_vars

\* PageManager::new left file f1: the first allocate_page returns 0
FirstPageIsZero(f1) ==
    allocate_page(f1, PageSize).st = "ok" /\ allocate_page(f1, PageSize).page_id = 0

\* C38: PageManager::new on a file of length L < header_size leaves the file
\* exactly header_size bytes long, for every L in [0, header_size), so that the
\* first allocate_page returns 0 and page 0 begins at byte header_size; a file
\* with L >= header_size is left unchanged.
C38_ShortFileExtended ==
    ~open =>
        Bind(PageManager_new(file, PageSize, Header_SIZE), LAMBDA f1 :
            IF Len(file) < Header_SIZE
            THEN /\ Len(f1) = Header_SIZE
                 /\ FirstPageIsZero(f1)
                 /\ from_pageid(PageSize, 0) = Len(f1)
            ELSE f1 = file)

\* what C38 says of the empty file and of the files that hold a header, and the
\* id of the first page on every file: it holds in every state
C38_EmptyOrLongFile ==
    ~open =>
        Bind(PageManager_new(file, PageSize, Header_SIZE), LAMBDA f1 :
            /\ Len(file) = 0 => Len(f1) = Header_SIZE /\ from_pageid(PageSize, 0) = Len(f1)
            /\ Len(file) < Header_SIZE => FirstPageIsZero(f1)
            /\ Len(file) >= Header_SIZE => f1 = file)

(***************************************************************************)
(* The client of the tree on a file that a tree was written to and in      *)
(* which the node-type byte of a page may have been overwritten since.     *)
(***************************************************************************)
BadNodeTypes == {2, 255}

\* byte offset of the node-type byte of page page_id in the file
NodeTypeAt(page_size, page_id) == from_pageid(page_size, page_id) + 8

SeededPageIds == 0..(to_pageid(PageSize, Len(Seeded.file)) - 1)

DamagedFiles ==
    {Seeded.file}
        \cup {FileWrite(Seeded.file, NodeTypeAt(PageSize, page_id), <<b>>) :
                 page_id \in SeededPageIds, b \in BadNodeTypes}

InitDamaged ==
    /\ overflow_checks \in BOOLEAN
    /\ writes = NoWrites
    /\ file \in DamagedFiles
    /\ open = FALSE
    /\ header = NoHeader
    /\ pm_page_size = 0
    /\ shadow = [k \in Keys |-> IF k \in {SeedKeys[1], SeedKeys[2]} THEN Text(LongLen)
                                ELSE NoValue]
    /\ clean = (Seeded.st = "ok")
    /\ reopened = FALSE
    /\ nops = 0
    /\ last = Seeded.st
    /\ slotted_page = SlottedPage_new(0, LEAF, 0)

SpecDamaged == InitDamaged /\ [][NextSeeded]_vars

\* the node-type byte of page page_id of f is neither INTERNAL nor LEAF
BadNodeType(f, page_size, page_id) ==
    pm_read_page(f, page_size, page_id)[9] \notin {INTERNAL, LEAF}

\* C39: reading a page whose node-type byte is neither 0 nor 1 yields the
\* InvalidNodeType error as a returned value, from read_page, search and insert,
\* rather than a panic.
C39_InvalidNodeTypeReturned ==
    open =>
        /\ \A page_id \in SeededPageIds :
               BadNodeType(file, pm_page_size, page_id) =>
                   read_page(file, header, pm_page_size, page_id).st = "InvalidNodeType"
        /\ BadNodeType(file, pm_page_size, header.root_page_id) =>
               /\ \A key \in Keys :
                      search(file, header, pm_page_size, key).st = "InvalidNodeType"
               /\ \A key \in Keys, value \in PageValues :
                      BTree_insert(file, header, pm_page_size, key, value).st
                          = "InvalidNodeType"

\* no call of the model returns InvalidNodeType: the error is never made
C39_NeverInvalidNodeType == last # "InvalidNodeType"

\* every u16 field of p holds a quantity of at most page_size
InPage(p) ==
    /\ p.free_space_end <= p.page_size
    /\ p.total_free <= p.page_size
    /\ p.num_keys <= p.page_size
    /\ \A i \in 1..Len(p.slots) :
          p.slots[i].offset + p.slots[i].key_length + p.slots[i].value_length <= p.page_size
    /\ \A i \in 1..Len(p.free_list) :
          p.free_list[i].offset + p.free_list[i].length <= p.page_size

\* total_free as compact computes it, in the integers
CompactTotalFree(p) == p.page_size - Header_SIZE - SlotBytes(p.slots)

\* C40: for every page_size in [256, 65535] and every sequence of page operations
\* on entries that fit in the page, no u16 quantity (free_space_end, total_free,
\* slot offset and lengths, hole offset and length) overflows, underflows or is
\* truncated, total_free during compact() on a page of one large entry included.
C40_NoU16Wraps ==
    ~Crashed(last) =>
        /\ InPage(slotted_page)
        /\ WellFormed(slotted_page) =>
               /\ CompactTotalFree(slotted_page) >= 0
               /\ compact(slotted_page).st = "ok"
               /\ compact(slotted_page).page.total_free = CompactTotalFree(slotted_page)

\* what C40 says of insert, update, delete and split on a page that no compact
\* has lowered total_free of: each keeps every field within the page
C40_EntryCallsStayInPage ==
    [][(EntryCall /\ InPage(slotted_page) /\ TotalFreeExact(slotted_page) /\ ~Crashed(last'))
           => InPage(slotted_page')]_vars

====
